---- MODULE Spec2Model ----
(***************************************************************************)
(* Model of the pantainos-memory MCP gateway: the derivation-graph         *)
(* renderer (formatters.fmt_reference), the shaping of request bodies by   *)
(* the user and admin tools, the per-invocation protocol                   *)
(* primary backend call -> render -> notification poll, the shared         *)
(* backend connection, the pure helpers and renderers of formatters.py,    *)
(* and dry runs of the destructive admin tools.                            *)
(*                                                                         *)
(* Python values are modelled as follows.  A dict is a function whose      *)
(* DOMAIN is its key set, a list is a sequence, None is the string         *)
(* "None", a str is a sequence of characters where its length matters      *)
(* and a string token otherwise.  A multi-line text is a sequence of       *)
(* lines, each line a sequence of tokens.                                  *)
(***************************************************************************)
EXTENDS Integers, Sequences, FiniteSets, TLC

VARIABLES
    refData,    \* fmt_reference: the payload handed to the renderer
    refOut,     \* fmt_reference: the rendered lines, or "None" before the call
    call,       \* parameter shaping: [tool, supplied] of the call being shaped
    shaped,     \* parameter shaping: the bodies handed to the client so far
    pc,         \* gateway: position of each invocation
    tool,       \* gateway: the tool each invocation runs
    args,       \* gateway: the arguments the caller supplied
    reqs,       \* gateway: the HTTP requests each invocation has sent, in order
    trace,      \* gateway: the steps each invocation has taken, in order
    resp,       \* gateway: the response to the invocation's primary request
    text,       \* gateway: the rendered result text of the invocation
    poll,       \* gateway: the outcome of the invocation's notification poll
    ret,        \* gateway: what the invocation returned to the agent
    exc,        \* gateway: the exception the invocation raised to the agent
    client,     \* client._client: the shared httpx connection
    conn,       \* connection: the connection each call in flight was sent on
    closes,     \* connection: how many times the connection has been closed
    fn,         \* function under test: its name
    fnIn,       \* function under test: its argument
    fnOut,      \* function under test: <<>> before the call, <<result>> after
    store,      \* dry run: the backend's memories
    dryLog      \* dry run: the [request, result] of each call so far

refVars  == <<refData, refOut>>
bodyVars == <<call, shaped>>
gwVars   == <<pc, tool, args, reqs, trace, resp, text, poll, ret, exc, client>>
connVars == <<conn, closes>>
fnVars   == <<fn, fnIn, fnOut>>
dryVars  == <<store, dryLog>>
extVars  == <<conn, closes, fn, fnIn, fnOut, store, dryLog>>
vars     == <<refData, refOut, call, shaped,
              pc, tool, args, reqs, trace, resp, text, poll, ret, exc, client,
              conn, closes, fn, fnIn, fnOut, store, dryLog>>

None == "None"

\* dict.get(key, default)
Get(d, key, default) == IF key \in DOMAIN d THEN d[key] ELSE default

\* s[:n]
Take(s, n) == SubSeq(s, 1, IF Len(s) < n THEN Len(s) ELSE n)

(***************************************************************************)
(* formatters.fmt_reference                                                *)
(***************************************************************************)

\* Bound: the longest edge list handed to the renderer.
MaxEdges == 3

\* Content is capped at this many characters in a label.
LabelCap == 60

Ids == {"m1", "m2", "m3"}

\* The content of each node: empty, short, and longer than the label cap.
ContentOf ==
    [id \in Ids |->
        CASE id = "m1" -> <<"a">>
          [] id = "m2" -> <<>>
          [] OTHER     -> [k \in 1..(LabelCap + 1) |-> "x"]]

Node(id) == [id |-> id, content |-> ContentOf[id]]

\* The node lists tried: every subset of Ids, in a fixed order.
NodeLists ==
    {<<>>, <<Node("m1")>>, <<Node("m2")>>, <<Node("m3")>>,
     <<Node("m1"), Node("m2")>>, <<Node("m1"), Node("m3")>>,
     <<Node("m2"), Node("m3")>>,
     <<Node("m1"), Node("m2"), Node("m3")>>}

Edge(s, t) == [source_id |-> s, target_id |-> t, edge_type |-> "derives_from"]

EdgeSet == {Edge(s, t) : s \in Ids, t \in Ids}

EdgeLists == UNION {[1..n -> EdgeSet] : n \in 0..MaxEdges}

\* children: source_id -> [(target_id, edge_type)], in edge-list order
ChildrenMap(edges) ==
    [s \in {Get(edges[k], "source_id", "") : k \in DOMAIN edges} |->
        LET sel == SelectSeq(edges, LAMBDA e : Get(e, "source_id", "") = s)
        IN  [k \in 1..Len(sel) |->
                <<Get(sel[k], "target_id", ""),
                  Get(sel[k], "edge_type", "derives_from")>>]]

\* Faulty variant: parents keyed by source_id like children.
ParentsMapSwapped(edges) == ChildrenMap(edges)

\* parents: target_id -> [(source_id, edge_type)], in edge-list order
ParentsMap(edges) ==
    [t \in {Get(edges[k], "target_id", "") : k \in DOMAIN edges} |->
        LET sel == SelectSeq(edges, LAMBDA e : Get(e, "target_id", "") = t)
        IN  [k \in 1..Len(sel) |->
                <<Get(sel[k], "source_id", ""),
                  Get(sel[k], "edge_type", "derives_from")>>]]

\* node_map = {n.get("id", ""): n for n in nodes}; a later node overrides
NodeMap(nodes) ==
    [id \in {Get(nodes[k], "id", "") : k \in DOMAIN nodes} |->
        LET ks == {k \in DOMAIN nodes : Get(nodes[k], "id", "") = id}
        IN  nodes[CHOOSE k \in ks : \A j \in ks : j <= k]]

\* Faulty variant: a node missing from node_map is labelled with a
\* placeholder content.
label_placeholder(node_map, nid) ==
    [id |-> nid,
     content |-> IF nid \in DOMAIN node_map
                 THEN Take(Get(node_map[nid], "content", <<>>), LabelCap)
                 ELSE <<"?">>]

\* _label: f"[{nid}] {content}" with content = n.get("content", "")[:60]
label(node_map, nid) ==
    [id |-> nid,
     content |-> Take(Get(Get(node_map, nid, <<>>), "content", <<>>), LabelCap)]

\* One output line: indent levels, the mark (">", "<" or none) and the label.
Line(indent, mark, lab) ==
    [indent |-> indent, mark |-> mark, id |-> lab.id, content |-> lab.content]

\* Faulty variant: the visited set starts without the root.
VisitedSeedEmpty(root_id) == {}

\* visited: set[str] = {root_id}
VisitedSeed(root_id) == {root_id}

RECURSIVE walk_down(_, _, _, _, _)
RECURSIVE walk_children(_, _, _, _, _, _)

RECURSIVE walk_children_same_indent(_, _, _, _, _, _)

\* Faulty variant: the recursion keeps the indent of its caller.
walk_children_same_indent(children, node_map, kids, k, indent, st) ==
    IF k > Len(kids) THEN st
    ELSE LET child_id == kids[k][1] IN
         IF child_id \notin st.visited
         THEN LET st1 == [visited |-> st.visited \cup {child_id},
                          lines   |-> Append(st.lines,
                                        Line(indent, ">", label(node_map, child_id)))]
                  st2 == walk_down(children, node_map, child_id, indent, st1)
              IN  walk_children_same_indent(children, node_map, kids, k + 1, indent, st2)
         ELSE walk_children_same_indent(children, node_map, kids, k + 1, indent, st)

\* The loop of _walk_down over children.get(nid, []) from position k on;
\* st carries the captured visited set and lines list.
walk_children(children, node_map, kids, k, indent, st) ==
    IF k > Len(kids) THEN st
    ELSE LET child_id == kids[k][1] IN
         IF child_id \notin st.visited
         THEN LET st1 == [visited |-> st.visited \cup {child_id},
                          lines   |-> Append(st.lines,
                                        Line(indent, ">", label(node_map, child_id)))]
                  st2 == walk_down(children, node_map, child_id, indent + 1, st1)
              IN  walk_children(children, node_map, kids, k + 1, indent, st2)
         ELSE walk_children(children, node_map, kids, k + 1, indent, st)

walk_down(children, node_map, nid, indent, st) ==
    walk_children(children, node_map, Get(children, nid, <<>>), 1, indent, st)

RECURSIVE walk_up(_, _, _, _)

\* The ancestor loop over parents.get(root_id, []) from position k on.
walk_up(node_map, ups, k, st) ==
    IF k > Len(ups) THEN st
    ELSE LET parent_id == ups[k][1] IN
         IF parent_id \notin st.visited
         THEN walk_up(node_map, ups, k + 1,
                      [visited |-> st.visited \cup {parent_id},
                       lines   |-> Append(st.lines,
                                     Line(1, "<", label(node_map, parent_id)))])
         ELSE walk_up(node_map, ups, k + 1, st)

\* fmt_reference(data): the rendered lines ("\n".join(lines))
fmt_reference(data) ==
    LET nodes   == Get(data, "nodes", <<>>)
        edges   == Get(data, "edges", <<>>)
        root_id == Get(data, "root", "?")
    IN  IF nodes = <<>>
        THEN <<[indent |-> 0, mark |-> "No graph data for", id |-> root_id,
                content |-> <<>>]>>
        ELSE LET children == ChildrenMap(edges)
                 parents  == ParentsMap(edges)
                 node_map == NodeMap(nodes)
                 st0 == [visited |-> VisitedSeed(root_id),
                         lines   |-> <<Line(0, "", label(node_map, root_id))>>]
                 st1 == walk_down(children, node_map, root_id, 1, st0)
                 st2 == walk_up(node_map, Get(parents, root_id, <<>>), 1, st1)
             IN  st2.lines

\* The payloads tried: with and without a root key.
RefInputs ==
    {[root |-> r, nodes |-> ns, edges |-> es] :
        r \in Ids, ns \in NodeLists, es \in EdgeLists}
    \cup {[nodes |-> ns, edges |-> <<>>] : ns \in NodeLists}

(***************************************************************************)
(* formatters.py: helpers and the list renderers                           *)
(*                                                                         *)
(* A ratio or percentage is held in thousandths (500 is 0.5, 50000 is 50). *)
(* A rendered number is the token ToString(n).  A renderer that indexes a  *)
(* missing key yields the token KeyError in place of the value.            *)
(***************************************************************************)

\* One unit of the values handed to _pct.
Unit == 1000

\* Python's round(): num / den to the nearest integer, ties to the even one.
round(num, den) ==
    LET q == num \div den
        r == num % den
    IN  IF 2 * r < den THEN q
        ELSE IF 2 * r > den THEN q + 1
        ELSE IF q % 2 = 0 THEN q ELSE q + 1

\* Faulty variant: every value is taken for a ratio.
pct_always_ratio(value) == round(value * 100, Unit)

\* _pct(value): round(value * 100) if value <= 1 else round(value)
pct(value) ==
    IF value <= Unit THEN round(value * 100, Unit) ELSE round(value, Unit)

\* The values handed to _pct, in thousandths: ratios from -1 to 1 with
\* ties (0.005, 0.125, 0.375, 0.995), and percentages above 1 with ties
\* (1.5, 2.5, 50.5).
PctValues ==
    {-1000, -500, 0, 4, 5, 125, 375, 500, 994, 995, 999, 1000,
     1001, 1400, 1500, 2500, 50000, 50500, 99600, 100000}

\* _outcome_icon(state, outcome)
outcome_icon(state, outcome) ==
    IF state = "resolved" /\ outcome = "incorrect" THEN " x"
    ELSE IF state = "resolved" /\ outcome = "superseded" THEN " clock"
    ELSE IF state = "resolved" /\ outcome = "correct" THEN " check"
    ELSE IF state = "resolved" /\ outcome = "voided" THEN " void"
    ELSE IF state = "violated" THEN " warn"
    ELSE IF state = "confirmed" THEN " ok"
    ELSE ""

\* d[key]: KeyError when the key is missing.
KeyError == "KeyError"
Index(d, key) == IF key \in DOMAIN d THEN d[key] ELSE KeyError

\* What a renderer returns: its lines, or the KeyError it raised on the way.
Raises(lines) ==
    \E k \in DOMAIN lines : \E j \in DOMAIN lines[k] : lines[k][j] = KeyError
Returned(lines) == IF Raises(lines) THEN KeyError ELSE lines

\* "\n\n".join(blocks): the blocks one after another with a blank line between
RECURSIVE JoinBlank(_)
JoinBlank(blocks) ==
    IF blocks = <<>> THEN <<>>
    ELSE IF Len(blocks) = 1 THEN blocks[1]
    ELSE blocks[1] \o <<<<>>>> \o JoinBlank(Tail(blocks))

\* "\n".join(blocks)
RECURSIVE Join(_)
Join(blocks) ==
    IF blocks = <<>> THEN <<>> ELSE blocks[1] \o Join(Tail(blocks))

\* Content is capped at this many characters by fmt_find.
FindCap == 80

\* The two lines of result r at position i of fmt_find.
find_item(i, r) ==
    LET m        == Get(r, "memory", <<>>)
        content  == Take(Get(m, "content", <<>>), FindCap)
        sim      == pct(Get(r, "similarity", 0))
        conf     == pct(Get(r, "confidence", 0))
        icon     == outcome_icon(Get(m, "state", None), Get(m, "outcome", None))
        \* surp = r.get("surprise"): None exactly when the key is missing
        surp_str == IF "surprise" \in DOMAIN r
                    THEN " surp:" \o ToString(pct(r["surprise"])) \o "%" ELSE ""
    IN  << <<ToString(i), ". [", Get(m, "id", "?"), "] ", content, icon>>,
           <<"   sim:", ToString(sim), "% conf:", ToString(conf), "%", surp_str>> >>

\* Faulty variant: an empty result list is rendered as an empty block.
fmt_find_empty_block(data) ==
    << <<"Found ", "0", " for \"", Get(data, "query", ""), "\":">>, <<>> >>

\* fmt_find(data)
fmt_find(data) ==
    LET results == Get(data, "results", <<>>)
        query   == Get(data, "query", "")
    IN  IF results = <<>>
        THEN << <<"No results for \"", query, "\"">> >>
        ELSE << <<"Found ", ToString(Len(results)), " for \"", query, "\":">>, <<>> >>
             \o JoinBlank([k \in DOMAIN results |-> find_item(k, results[k])])

\* fmt_roots(data)
fmt_roots(data) ==
    LET roots == Get(data, "roots", Get(data, "results", <<>>))
    IN  IF roots = <<>>
        THEN << <<"No root memories found">> >>
        ELSE << <<"Root memories (", ToString(Len(roots)), "):">>, <<>> >>
             \o [k \in DOMAIN roots |->
                    <<"[", Get(roots[k], "id", "?"), "] ",
                      Get(roots[k], "content", <<>>)>>]

\* json.dumps(data, indent=2, default=str): the payload printed as it is
json_dumps(data) == << <<"json", ToString(data)>> >>

\* Python truthiness of a flag or text of a payload: false for a missing
\* key (None), for false and for the empty string.
Bool(v) == v \notin {None, "False", ""}

\* fmt_admin shows at most this many items, each content capped.
AdminItems == 10
AdminCap   == 80

\* An item of would_retract that is a bare id, not a dict, is held under
\* the reserved key "bare".
IsItemDict(m) == "bare" \notin DOMAIN m

\* One line of the would_retract listing.
admin_item(m) ==
    LET mid     == IF IsItemDict(m) THEN Get(m, "id", "?") ELSE m.bare
        content == IF IsItemDict(m) THEN Get(m, "content", <<>>) ELSE <<>>
    IN  <<"  [", mid, "] ", Take(content, AdminCap)>>

\* fmt_admin(data): the first branch whose key the payload holds; the
\* would_retract of the payloads tried is always a list.
fmt_admin(data) ==
    LET success == Get(data, "success", "False") IN
    IF "retracted" \in DOMAIN data
    THEN LET count   == Index(data, "retracted")
             reason  == Get(data, "reason", "")
             cascade == Get(data, "cascade_retracted", 0)
         IN  << <<"Retracted ", ToString(count), " memor",
                  IF count = 1 THEN "y" ELSE "ies",
                  IF cascade # 0 THEN " + " \o ToString(cascade) \o " cascade" ELSE "",
                  IF Bool(reason) THEN " (" \o reason \o ")" ELSE "">> >>
    ELSE IF "pending_count" \in DOMAIN data \/ "event_types" \in DOMAIN data
    THEN json_dumps(data)
    ELSE IF "purged" \in DOMAIN data
    THEN << <<"Purged ", ToString(Index(data, "purged")), " events",
              IF Bool(Get(data, "dry_run", None)) THEN " (dry run)" ELSE "">> >>
    ELSE IF "previous_state" \in DOMAIN data \/ "new_state" \in DOMAIN data
    THEN << <<"[", Get(data, "memory_id", "?"), "] ",
              Get(data, "previous_state", "?"), " -> ",
              Get(data, "new_state", Get(data, "state", "?"))>> >>
    ELSE IF "cleaned" \in DOMAIN data
    THEN << <<"Cleaned ", ToString(Index(data, "cleaned")), " condition vectors",
              IF Bool(Get(data, "dry_run", None)) THEN " (dry run)" ELSE "">> >>
    ELSE IF Bool(success) /\ Cardinality(DOMAIN data) <= 2
    THEN << <<"Done">> >>
    ELSE IF "would_retract" \in DOMAIN data
    THEN LET items == Index(data, "would_retract")
             shown == Take(items, AdminItems)
         IN  << <<"Would retract ", ToString(Len(items)), " memories:">> >>
             \o [k \in DOMAIN shown |-> admin_item(shown[k])]
    ELSE json_dumps(data)

\* Bound: the longest item list of a payload handed to a list renderer.
MaxItems == 2

LongContent == [k \in 1..(FindCap + 1) |-> "x"]

\* The results handed to fmt_find: without any key, without the keys of
\* the memory, without the id, and complete.
FindItems ==
    {<<>>,
     [memory |-> <<>>],
     [memory |-> [content |-> <<"a">>], similarity |-> 500],
     [memory |-> [id |-> "m1", content |-> LongContent, state |-> "confirmed"],
      similarity |-> 500, confidence |-> 50000, surprise |-> 125]}

FindPayloads ==
    {<<>>, [query |-> "q"]}
    \cup UNION {{[results |-> rs], [results |-> rs, query |-> "q"]}
                    : rs \in UNION {[1..n -> FindItems] : n \in 0..MaxItems}}

RootItems == {<<>>, [content |-> <<"a">>], [id |-> "m1", content |-> <<"a">>]}

RootsPayloads ==
    {<<>>}
    \cup UNION {{[roots |-> rs], [results |-> rs]}
                    : rs \in UNION {[1..n -> RootItems] : n \in 0..MaxItems}}

RetractItems ==
    {<<>>, [content |-> <<"a">>], [id |-> "m1", content |-> LongContent],
     [bare |-> "m1"]}

RetractLists ==
    UNION {[1..n -> RetractItems] : n \in 0..MaxItems}
    \cup {[k \in 1..(AdminItems + 1) |-> [id |-> "m1"]]}

\* The payloads handed to fmt_admin: one per branch, each also without
\* the keys the branch reads next to the one that selects it.
AdminPayloads ==
    {<<>>, [success |-> "True"], [success |-> "False"],
     [success |-> "True", message |-> "m"],
     [success |-> "True", message |-> "m", count |-> 1],
     [retracted |-> 1], [retracted |-> 0, success |-> "True"],
     [retracted |-> 2, reason |-> "r", cascade_retracted |-> 1, success |-> "True"],
     [pending_count |-> 1], [event_types |-> <<>>, success |-> "True"],
     [purged |-> 3], [purged |-> 3, dry_run |-> "True", success |-> "True"],
     [purged |-> 3, dry_run |-> "False", success |-> "True"],
     [new_state |-> "active"], [previous_state |-> "draft"],
     [previous_state |-> "draft", state |-> "active", memory_id |-> "m1"],
     [cleaned |-> 2], [cleaned |-> 2, dry_run |-> "True", success |-> "True"]}
    \cup UNION {{[would_retract |-> ws],
                 [success |-> "True", would_retract |-> ws],
                 [success |-> "False", would_retract |-> ws],
                 [success |-> "True", dry_run |-> "True", would_retract |-> ws]}
                    : ws \in RetractLists}

\* Payloads of fmt_reference lacking keys of the payload, of a node or of
\* an edge.
PartialNodes == {<<>>, <<Node("m1")>>, <<[content |-> <<"a">>]>>, <<[id |-> "m1"]>>}

PartialEdges ==
    {<<>>, <<Edge("m1", "m2")>>, <<[source_id |-> "m1"]>>,
     <<[target_id |-> "m1"]>>, <<[edge_type |-> "derives_from"]>>}

RefPartial ==
    UNION {{[nodes |-> ns, edges |-> es], [root |-> "m1", nodes |-> ns, edges |-> es],
            [root |-> "m1", nodes |-> ns], [root |-> "m1", edges |-> es]}
                : ns \in PartialNodes, es \in PartialEdges}
    \cup {<<>>}

(***************************************************************************)
(* formatters.py: timestamps                                               *)
(*                                                                         *)
(* A timestamp is a natural number held as the sequence of its base-1000   *)
(* digits, most significant first and without leading zeros               *)
(* (1700000000 is <<1, 700, 0, 0>>).  An argument that may be None is     *)
(* <<>> for None and <<n>> for the number n.                               *)
(***************************************************************************)

\* The base of the digits.
Base == 1000

\* Faulty variant: the threshold is 10^9, so every value from 10^9 on is
\* taken for milliseconds.
normalise_low_threshold(ts) == IF Len(ts) < 4 THEN Append(ts, 0) ELSE ts

\* ms = ts * 1000 if ts < 1e12 else ts; 10^12 is the least number of five digits
normalise(ts) == IF Len(ts) < 5 THEN (IF ts = <<0>> THEN ts ELSE Append(ts, 0)) ELSE ts

\* Quotient and remainder of the number with digits ds by d, from digit k on.
RECURSIVE DivMod(_, _, _, _)
DivMod(ds, k, d, acc) ==
    IF k > Len(ds) THEN acc
    ELSE LET cur == acc.r * Base + ds[k]
         IN  DivMod(ds, k + 1, d, [q |-> acc.q * Base + cur \div d, r |-> cur % d])

\* datetime.fromtimestamp(ms / 1000, tz=utc): the calendar fields of the
\* instant; a year after 9999 is a ValueError (valid is FALSE).
fromtimestamp(ms) ==
    LET secs == IF Len(ms) = 1 THEN <<0>> ELSE SubSeq(ms, 1, Len(ms) - 1)
        dm   == DivMod(secs, 1, 86400, [q |-> 0, r |-> 0])
        z    == dm.q + 719468
        era  == z \div 146097
        doe  == z % 146097
        yoe  == (doe - doe \div 1460 + doe \div 36524 - doe \div 146096) \div 365
        doy  == doe - (365 * yoe + yoe \div 4 - yoe \div 100)
        mp   == (5 * doy + 2) \div 153
        day  == doy - (153 * mp + 2) \div 5 + 1
        mon  == IF mp < 10 THEN mp + 3 ELSE mp - 9
        yr   == yoe + era * 400 + (IF mon <= 2 THEN 1 ELSE 0)
    IN  [valid |-> yr <= 9999, year |-> yr, month |-> mon, day |-> day,
         hour |-> dm.r \div 3600, minute |-> (dm.r % 3600) \div 60]

\* Two digits, zero-padded.
Pad2(n) == IF n < 10 THEN "0" \o ToString(n) ELSE ToString(n)

\* _resolves_by(ts) and _ts(value): the normalised milliseconds and the text
resolves_by(ts) ==
    IF ts = <<>> THEN [ms |-> <<>>, text |-> "no deadline"]
    ELSE LET t == fromtimestamp(normalise(ts[1]))
         IN  [ms |-> normalise(ts[1]),
              text |-> IF ~t.valid THEN "ValueError"
                       ELSE ToString(t.year) \o "-" \o Pad2(t.month) \o "-" \o Pad2(t.day)]

ts_text(value) ==
    IF value = <<>> THEN [ms |-> <<>>, text |-> "??-?? ??:??"]
    ELSE LET t == fromtimestamp(normalise(value[1]))
         IN  [ms |-> normalise(value[1]),
              text |-> IF ~t.valid THEN "ValueError"
                       ELSE Pad2(t.month) \o "-" \o Pad2(t.day) \o " "
                            \o Pad2(t.hour) \o ":" \o Pad2(t.minute)]

\* The timestamps tried: None, around a day's end, leap days, the same
\* instant in seconds and in milliseconds, both sides of 10^12, and both
\* sides of the last second of year 9999.
TsValues ==
    {<<0>>, <<1>>, <<999>>, <<86, 399>>, <<86, 400>>, <<951, 782, 400>>,
     <<1, 700, 0, 0>>, <<1, 709, 251, 199>>, <<1, 709, 251, 200>>,
     <<253, 402, 300, 799>>, <<253, 402, 300, 800>>, <<999, 999, 999, 999>>,
     <<1, 0, 0, 0, 0>>, <<1, 0, 0, 0, 1>>, <<1, 699, 999, 999, 999>>,
     <<1, 700, 0, 0, 0>>, <<253, 402, 300, 799, 999>>, <<253, 402, 300, 800, 0>>}

TsInputs ==
    {<<>>} \cup {<<n>> : n \in TsValues}

(***************************************************************************)
(* The tool declarations of user/server.py and admin/server.py             *)
(***************************************************************************)

\* A parameter without a default value.
REQ == "REQUIRED"

\* One declared parameter: its name, its default (REQ when it has none),
\* how the tool puts it into the outgoing body or query parameters, and
\* the values a caller may supply for it.  An optional parameter typed
\* "X | None" may also be passed None, which the tool cannot tell from
\* leaving it unset; a parameter typed bool, int or float cannot be None.
\*   how = "drop_none": through _body(...) or "if x is not None"
\*         "always":    a key of the dict literal
\*         "if_true":   only when truthy, with its value
\*         "if_true_str": only when truthy, as the string "true"
\*         "path":      part of the URL path, never in the body
P(name, dflt, how, vals) == [name |-> name, dflt |-> dflt, how |-> how, vals |-> vals]

Bools == {"True", "False"}
Val   == {"v"}

Tool(srv, annot, method, path, params, fmt, notif) ==
    [srv |-> srv, annot |-> annot, method |-> method, path |-> path,
     params |-> params, fmt |-> fmt, notif |-> notif]

UserTools ==
    [observe |-> Tool("user", "rw", "POST", "/observe",
        <<P("content", REQ, "drop_none", Val),
          P("source", None, "drop_none", Val),
          P("source_url", None, "drop_none", Val),
          P("derived_from", None, "drop_none", Val),
          P("invalidates_if", None, "drop_none", Val),
          P("confirms_if", None, "drop_none", Val),
          P("assumes", None, "drop_none", Val),
          P("resolves_by", None, "drop_none", Val),
          P("outcome_condition", None, "drop_none", Val),
          P("tags", None, "drop_none", Val),
          P("obsidian_sources", None, "drop_none", Val),
          P("atomic_override", None, "drop_none", Bools)>>,
        "observe", TRUE),
     update |-> Tool("user", "rw", "POST", "/update",
        <<P("memory_id", REQ, "drop_none", Val),
          P("content", None, "drop_none", Val),
          P("source", None, "drop_none", Val),
          P("source_url", None, "drop_none", Val),
          P("derived_from", None, "drop_none", Val),
          P("invalidates_if", None, "drop_none", Val),
          P("confirms_if", None, "drop_none", Val),
          P("assumes", None, "drop_none", Val),
          P("resolves_by", None, "drop_none", Val),
          P("outcome_condition", None, "drop_none", Val),
          P("tags", None, "drop_none", Val),
          P("obsidian_sources", None, "drop_none", Val)>>,
        "fmt_recall", TRUE),
     resolve |-> Tool("user", "rw_idempotent", "POST", "/resolve",
        <<P("memory_id", REQ, "drop_none", Val),
          P("outcome", REQ, "drop_none", Val),
          P("reason", REQ, "drop_none", Val),
          P("replaced_by", None, "drop_none", Val),
          P("force", "False", "if_true", Bools)>>,
        "fmt_default", TRUE),
     refresh_stats |-> Tool("user", "rw_idempotent", "POST", "/refresh-stats",
        <<P("summary_only", "False", "always", Bools)>>,
        "fmt_stats", TRUE),
     override |-> Tool("user", "rw_idempotent", "POST", "/override",
        <<P("memory_id", REQ, "always", Val)>>,
        "override", TRUE),
     find |-> Tool("user", "ro", "POST", "/find",
        <<P("query", REQ, "always", Val),
          P("has_source", None, "drop_none", Bools),
          P("has_derived_from", None, "drop_none", Bools),
          P("time_bound", None, "drop_none", Bools),
          P("limit", "10", "always", Val),
          P("min_similarity", None, "drop_none", Val)>>,
        "fmt_find", TRUE),
     recall |-> Tool("user", "ro", "GET", "/recall/{memory_id}",
        <<P("memory_id", REQ, "path", Val)>>,
        "fmt_recall", TRUE),
     stats |-> Tool("user", "ro", "GET", "/stats", <<>>, "fmt_stats", TRUE),
     pending |-> Tool("user", "ro", "GET", "/pending",
        <<P("overdue", "False", "if_true_str", Bools),
          P("limit", "20", "always", Val),
          P("offset", "0", "always", Val)>>,
        "fmt_pending", TRUE),
     insights |-> Tool("user", "ro", "GET", "/insights/{view}",
        <<P("view", "recent", "path", Val),
          P("limit", "20", "always", Val),
          P("offset", "0", "always", Val)>>,
        "fmt_insights", TRUE),
     reference |-> Tool("user", "ro", "GET", "/reference/{memory_id}",
        <<P("memory_id", REQ, "path", Val),
          P("direction", "both", "always", Val),
          P("depth", "2", "always", Val)>>,
        "fmt_reference", TRUE),
     roots |-> Tool("user", "ro", "GET", "/roots/{memory_id}",
        <<P("memory_id", REQ, "path", Val)>>,
        "fmt_roots", TRUE),
     zones |-> Tool("user", "ro", "POST", "/zones",
        <<P("query", None, "drop_none", Val),
          P("memory_id", None, "drop_none", Val),
          P("max_depth", "3", "drop_none", Val),
          P("max_size", "30", "drop_none", Val),
          P("include_semantic", "True", "drop_none", Bools),
          P("min_edge_strength", "0.3", "drop_none", Val)>>,
        "fmt_zones", TRUE),
     between |-> Tool("user", "ro", "POST", "/between",
        <<P("memory_ids", REQ, "always", Val),
          P("limit", "5", "always", Val)>>,
        "fmt_between", TRUE),
     surprising |-> Tool("user", "ro", "GET", "/surprising",
        <<P("limit", "10", "always", Val),
          P("min_surprise", "0.3", "always", Val)>>,
        "fmt_surprising", TRUE),
     session_recap |-> Tool("user", "ro", "POST", "/session-recap",
        <<P("minutes", "30", "always", Val),
          P("limit", "30", "always", Val),
          P("raw", "False", "if_true", Bools)>>,
        "fmt_session_recap", TRUE)]

AdminTools ==
    [queue_status |-> Tool("admin", "ro", "POST", "/admin/queue-status",
        <<P("detail_level", "summary", "drop_none", Val),
          P("session_id", None, "drop_none", Val)>>,
        "fmt_admin", FALSE),
     queue_purge |-> Tool("admin", "destructive", "POST", "/admin/queue-purge",
        <<P("mode", REQ, "drop_none", Val),
          P("session_id", None, "drop_none", Val),
          P("older_than_hours", "24", "drop_none", Val),
          P("dry_run", "True", "drop_none", Bools)>>,
        "fmt_admin", FALSE),
     memory_state |-> Tool("admin", "rw", "POST", "/admin/memory-state",
        <<P("memory_id", REQ, "drop_none", Val),
          P("new_state", REQ, "drop_none", Val),
          P("reason", REQ, "drop_none", Val),
          P("outcome", None, "drop_none", Val)>>,
        "fmt_admin", FALSE),
     condition_vectors_cleanup |->
        Tool("admin", "destructive", "POST", "/admin/condition-vectors-cleanup",
        <<P("memory_id", None, "drop_none", Val),
          P("batch_size", "50", "drop_none", Val),
          P("dry_run", "True", "drop_none", Bools)>>,
        "fmt_admin", FALSE),
     system_diagnostics |-> Tool("admin", "ro", "GET", "/admin/system-diagnostics",
        <<P("include_samples", "False", "if_true_str", Bools)>>,
        "fmt_admin", FALSE),
     force_dispatch |-> Tool("admin", "ro", "GET", "/admin/force-dispatch",
        <<P("session_id", REQ, "always", Val)>>,
        "fmt_admin", FALSE),
     graph_health |-> Tool("admin", "ro", "GET", "/admin/graph-health",
        <<P("check", "all", "always", Val)>>,
        "fmt_admin", FALSE),
     bulk_retract |-> Tool("admin", "destructive", "POST", "/admin/bulk-retract",
        <<P("memory_id", REQ, "always", Val),
          P("reason", REQ, "always", Val),
          P("cascade", "False", "always", Bools),
          P("dry_run", "True", "always", Bools)>>,
        "fmt_admin", FALSE),
     re_evaluate_violations |->
        Tool("admin", "rw", "POST", "/admin/re-evaluate-violations",
        <<P("memory_id", None, "drop_none", Val),
          P("batch_size", "10", "drop_none", Val),
          P("dry_run", "True", "drop_none", Bools),
          P("confidence_threshold", "0.7", "drop_none", Val)>>,
        "fmt_admin", FALSE),
     backfill_surprise |-> Tool("admin", "rw", "POST", "/admin/backfill-surprise",
        <<P("parallelism", "5", "always", Val),
          P("batch_size", "50", "always", Val),
          P("dry_run", "True", "always", Bools)>>,
        "fmt_admin", FALSE)]

UserToolNames  == DOMAIN UserTools
AdminToolNames == DOMAIN AdminTools
ToolNames      == UserToolNames \cup AdminToolNames

ToolOf(t) == IF t \in UserToolNames THEN UserTools[t] ELSE AdminTools[t]

\* ToolAnnotations(...): a hint that is not passed stays None.
ToolAnnotations(readOnly, destructive, idempotent) ==
    [readOnlyHint |-> readOnly, destructiveHint |-> destructive,
     idempotentHint |-> idempotent]

\* Faulty variant: every mutating annotation of the user server is idempotent.
HintsRwIdempotent(srv, annot) ==
    CASE annot = "ro"          -> ToolAnnotations("True", None, None)
      [] annot = "destructive" -> ToolAnnotations("False", "True", None)
      [] OTHER                 -> ToolAnnotations("False", "False", "True")

\* The annotation objects of the two servers: _ro, _rw, _rw_idempotent of
\* user/server.py and _ro, _rw, _destructive of admin/server.py.
Hints(srv, annot) ==
    CASE annot = "ro"                   -> ToolAnnotations("True", None, None)
      [] annot = "rw" /\ srv = "user"   -> ToolAnnotations("False", "False", "False")
      [] annot = "rw" /\ srv = "admin"  -> ToolAnnotations("False", "False", None)
      [] annot = "rw_idempotent"        -> ToolAnnotations("False", "False", "True")
      [] annot = "destructive"          -> ToolAnnotations("False", "True", None)

\* @mcp.tool(annotations=...): the hints tool t is declared with.
HintsOf(t) == Hints(ToolOf(t).srv, ToolOf(t).annot)

Params(t)    == {ToolOf(t).params[k] : k \in DOMAIN ToolOf(t).params}
ParamOf(t, n) == CHOOSE q \in Params(t) : q.name = n
Optional(t)  == {q \in Params(t) : q.dflt # REQ}
Required(t)  == {q \in Params(t) : q.dflt = REQ}

RECURSIVE Assignments(_, _)
\* Every way to give each parameter name in ns one of its values.
Assignments(t, ns) ==
    IF ns = {} THEN {<<>>}
    ELSE LET n == CHOOSE x \in ns : TRUE
         IN  {f @@ (n :> v) : f \in Assignments(t, ns \ {n}), v \in ParamOf(t, n).vals}

\* What a caller may supply to tool t: a value for every required
\* parameter and for any subset of the optional ones, keyed by name.
Supplied(t) ==
    UNION {Assignments(t, {q.name : q \in Required(t)} \cup O)
              : O \in SUBSET {q.name : q \in Optional(t)}}

\* The argument the tool function receives for parameter q.
Arg(s, q) == IF q.name \in DOMAIN s THEN s[q.name] ELSE q.dflt

\* Faulty variant: every falsy argument is dropped, not only None.
SentTruthy(q, arg) == q.how # "path" /\ arg \notin {"None", "False"}

\* Faulty variant: nothing is dropped.
SentAlways(q, arg) == q.how # "path"

\* Whether parameter q, received as arg, becomes a key of the body.
Sent(q, arg) ==
    CASE q.how = "always"      -> TRUE
      [] q.how = "drop_none"   -> arg # "None"
      [] q.how = "if_true"     -> arg = "True"
      [] q.how = "if_true_str" -> arg = "True"
      [] OTHER                 -> FALSE

\* The value sent under the key.
SentValue(q, arg) == IF q.how = "if_true_str" THEN "true" ELSE arg

\* Faulty variant: dry_run and cascade take each other's place in the body.
BuildBodySwapped(t, s) ==
    LET b == [n \in {q.name : q \in {r \in Params(t) : Sent(r, Arg(s, r))}} |->
                SentValue(ParamOf(t, n), Arg(s, ParamOf(t, n)))]
    IN  IF {"dry_run", "cascade"} \subseteq DOMAIN b
        THEN [b EXCEPT !["dry_run"] = b["cascade"], !["cascade"] = b["dry_run"]]
        ELSE b

\* The JSON body (POST) or query parameters (GET) the tool hands to the client.
BuildBody(t, s) ==
    [n \in {q.name : q \in {r \in Params(t) : Sent(r, Arg(s, r))}} |->
        SentValue(ParamOf(t, n), Arg(s, ParamOf(t, n)))]

(***************************************************************************)
(* client.py: the shared connection, post and get                          *)
(***************************************************************************)

\* Faulty variant: a new connection for every call.
get_client_always_new(c) == [state |-> "open", created |-> c.created + 1]

\* _get_client(): create the connection when absent or closed, else reuse.
\* It has no await: it runs atomically within the calling step.
get_client(c) ==
    IF c.state = "None" \/ c.state = "closed"
    THEN [state |-> "open", created |-> c.created + 1]
    ELSE c

\* One HTTP exchange: what the backend (or the network) answers.
\*   kind "ok": a success status; "http_error": a non-success status;
\*   "network_error": httpx raised instead of answering.
Response(kind, status, is_json, json, txt) ==
    [kind |-> kind, status |-> status, is_json |-> is_json, json |-> json, text |-> txt]

NoResponse == Response("none", 0, FALSE, <<>>, "")

\* The failing exchanges tried: a non-success status with a JSON error
\* body, an unreachable backend, and a success status without a JSON body.
ErrorResponses ==
    {Response("http_error", 500, TRUE, [error |-> "e"], "{error}"),
     Response("network_error", 0, FALSE, <<>>, "ConnectError"),
     Response("ok", 200, FALSE, <<>>, "not json")}

Exception(type, status, detail) == [type |-> type, status |-> status, detail |-> detail]

NoException == Exception("None", 0, "")

\* Python truthiness of a str-or-None field of a JSON body.
Truthy(v) == v # None /\ v # ""

\* A JSON body that is an array, not an object: it has no .get.  It is
\* held under the reserved key "items", which no JSON object of the model uses.
JsonArray == [items |-> <<"item">>]

IsDict(j) == "items" \notin DOMAIN j

\* resp.reason_phrase: the standard phrase of the status code.
reason_phrase(status) ==
    CASE status = 200 -> "OK"
      [] status = 404 -> "Not Found"
      [] status = 500 -> "Internal Server Error"
      [] OTHER        -> ""

\* Faulty variant: like httpx's own raise_for_status, the body is ignored.
raise_for_status_no_body(r) ==
    IF r.kind = "ok" THEN NoException
    ELSE Exception("APIError", r.status, reason_phrase(r.status))

\* _raise_for_status: the APIError for a non-success response.  A body
\* that is not JSON, or is JSON without .get, takes the except branch.
raise_for_status(r) ==
    IF r.kind = "ok" THEN NoException
    ELSE IF r.is_json /\ IsDict(r.json)
         THEN Exception("APIError", r.status,
                 IF Truthy(Get(r.json, "error", None)) THEN r.json["error"]
                 ELSE IF Truthy(Get(r.json, "message", None)) THEN r.json["message"]
                 ELSE r.text)
         ELSE Exception("APIError", r.status,
                 IF r.text # "" THEN r.text ELSE reason_phrase(r.status))

\* What post/get raise for response r (NoException when they return).
client_raises(r) ==
    CASE r.kind = "network_error" -> Exception("httpx." \o r.text, 0, "")
      [] r.kind = "http_error"    -> raise_for_status(r)
      [] ~r.is_json               -> Exception("JSONDecodeError", 0, "")
      [] OTHER                    -> NoException

Failed(r) == client_raises(r) # NoException

\* post / get on response r: what is raised and what is returned.
client_call(r) ==
    [raised |-> client_raises(r),
     value  |-> IF client_raises(r) = NoException THEN r.json ELSE None]

\* The responses post / get are tried on: each status with a JSON object
\* holding (or not) an error and a message field, each empty, null or
\* filled; a JSON array; a body that is not JSON, empty or not.
StatusCodes == {200, 404, 500}

FieldValues == {"absent", "", None, "set"}

JsonObject(e, m) ==
    (IF e = "absent" THEN <<>> ELSE [error |-> IF e = "set" THEN "e" ELSE e])
    @@ (IF m = "absent" THEN <<>> ELSE [message |-> IF m = "set" THEN "m" ELSE m])

KindOf(status) == IF status >= 200 /\ status < 300 THEN "ok" ELSE "http_error"

ClientResponses ==
    {Response(KindOf(st), st, TRUE, JsonObject(e, m), "{json}") :
        st \in StatusCodes, e \in FieldValues, m \in FieldValues}
    \cup {Response(KindOf(st), st, TRUE, JsonArray, "[json]") : st \in StatusCodes}
    \cup {Response(KindOf(st), st, FALSE, <<>>, t) : st \in StatusCodes, t \in {"", "raw"}}
    \cup {Response("network_error", 0, FALSE, <<>>, "ConnectError")}

\* An outgoing request: f"/api{path}" with the body or query parameters.
Request(method, path, body) ==
    [method |-> method, path |-> "/api" \o path, body |-> body]

PollPath == "/notifications/pending"

IsPoll(rq) == rq.path = "/api" \o PollPath

\* client.get("/notifications/pending", session_id=session_id)
PollRequest == Request("GET", PollPath, <<>>)

\* Faulty variant: the tool polls where it should send its own call.
PollRequestFirst(t, s) == PollRequest

\* The tool's own backend call: client.post(path, body) or client.get(path, params)
PrimaryRequest(t, s) ==
    Request(ToolOf(t).method, ToolOf(t).path, BuildBody(t, s))

(***************************************************************************)
(* notifications.py and the result texts                                   *)
(***************************************************************************)

\* Bound: the longest notification list a poll returns.
MaxNotifs == 2

\* A notification item: with its content, or without the content key.
NotifItems == {[content |-> "n1"], <<>>}

NotifLists == UNION {[1..n -> NotifItems] : n \in 0..MaxNotifs}

\* The JSON bodies a successful poll may carry.
PollData == {<<>>} \cup {[notifications |-> ns] : ns \in NotifLists}

PollResponses ==
    ErrorResponses \cup {Response("ok", 200, TRUE, d, "") : d \in PollData}

\* a + b for multi-line texts: the last line of a continues with the
\* first line of b.
Concat(a, b) ==
    SubSeq(a, 1, Len(a) - 1) \o <<a[Len(a)] \o b[1]>> \o Tail(b)

\* The exception fetch_and_format lets through, raised after its try block.
fetch_raises(r) ==
    IF Failed(r) THEN NoException
    ELSE LET notifications == Get(r.json, "notifications", <<>>)
         IN  IF \E k \in DOMAIN notifications : "content" \notin DOMAIN notifications[k]
             THEN Exception("KeyError", 0, "content")
             ELSE NoException

\* fetch_and_format: the header text, or None.
fetch_and_format(r) ==
    IF Failed(r) THEN None
    ELSE LET notifications == Get(r.json, "notifications", <<>>)
         IN  IF notifications = <<>> THEN None
             ELSE <<<<"=== NOTIFICATIONS ===">>>>
                  \o [k \in 1..Len(notifications) |-> <<"- ", notifications[k]["content"]>>]
                  \o <<<<>>>>

\* _with_notifications, after the poll returned r: header + result, or result.
with_notifications(result, r) ==
    IF fetch_and_format(r) # None THEN Concat(fetch_and_format(r), result) ELSE result

\* The JSON bodies a successful primary call may carry.
PrimaryData(t) ==
    IF t = "override" THEN {[success |-> "True"], [success |-> "False", error |-> "e"]}
    ELSE {[success |-> "True"]}

PrimaryResponses(t) ==
    ErrorResponses \cup {Response("ok", 200, TRUE, d, "") : d \in PrimaryData(t)}

\* The text a tool computes from the payload before the notification step.
\* override renders inline; insights adds the view to the payload; every
\* other renderer is kept uninterpreted here: its name applied to the payload.
Render(t, s, data) ==
    CASE t = "override" ->
            IF Truthy(Get(data, "success", None)) /\ data["success"] # "False"
            THEN <<<<"Committed [", s["memory_id"], "] - now active and indexed">>>>
            ELSE <<<<"Failed: ", Get(data, "error", "unknown error")>>>>
      [] t = "insights" ->
            <<<<ToolOf(t).fmt,
                ToString(("view" :> Arg(s, ParamOf(t, "view"))) @@ data)>>>>
      [] OTHER -> <<<<ToolOf(t).fmt, ToString(data)>>>>

\* Faulty variant: no tool goes through _with_notifications.
WrapsNone(t) == FALSE

\* Whether the tool passes its result through _with_notifications.
Wraps(t) == ToolOf(t).notif

(***************************************************************************)
(* user/server.py: the observe tool after its backend call returned        *)
(***************************************************************************)

\* The preview shows at most this many characters of the content.
PreviewCap == 100

\* f"{content[:100]}{'...' if len(content) > 100 else ''}"
preview(content) ==
    <<Take(content, PreviewCap), IF Len(content) > PreviewCap THEN "..." ELSE "">>

\* The result text observe builds from the payload (lines 76-92).
observe_result(content, data) ==
    LET mem_id == Get(data, "id", "?")
        status == Get(data, "status", "active")
    IN  IF status = "draft"
        THEN LET warnings  == Get(data, "warnings", <<>>)
                 missing   == Get(warnings, "missing_fields", <<>>)
                 reasoning == Get(warnings, "reasoning", "")
             IN  << <<"Draft [", mem_id, "] - saved but NOT committed">>,
                    preview(content), <<>> >>
                 \o [k \in DOMAIN missing |->
                        <<"- ", Get(missing[k], "field", "?"), ": ",
                          Get(missing[k], "reason", "")>>]
                 \o (IF reasoning # "" THEN << <<>>, <<reasoning>> >> ELSE <<>>)
                 \o << <<>>, <<"To commit: call override(memory_id=\"", mem_id, "\")">> >>
        ELSE << <<"Stored [", mem_id, "]">>, preview(content) >>

\* A user tool from its rendered result on: _with_notifications(result)
\* with the poll answered by r; what the invocation raises and returns.
notified(result, r) ==
    [raised |-> fetch_raises(r),
     value  |-> IF fetch_raises(r) = NoException
                THEN with_notifications(result, r) ELSE None]

\* observe after client.post returned data, the poll answered by r.
observe_tool(in) == notified(observe_result(in.content, in.data), in.poll)

MissingFields ==
    {[field |-> "source", reason |-> "r1"], [field |-> "tags"], <<>>}

MissingLists == UNION {[1..n -> MissingFields] : n \in 0..MaxItems}

Warnings ==
    {<<>>, [reasoning |-> "why"]}
    \cup UNION {{[missing_fields |-> ms], [missing_fields |-> ms, reasoning |-> "why"]}
                    : ms \in MissingLists}

\* The payloads of a successful /observe call.
ObserveData ==
    UNION {{[status |-> st], [id |-> "m1", status |-> st],
            [status |-> st, warnings |-> w], [id |-> "m1", status |-> st, warnings |-> w]}
                : st \in {"draft", "active"}, w \in Warnings}
    \cup {<<>>, [id |-> "m1"]}

ObserveContents == {<<"a">>, [k \in 1..(PreviewCap + 1) |-> "x"]}

ObserveInputs ==
    {[content |-> c, data |-> d, poll |-> r] :
        c \in ObserveContents, d \in ObserveData, r \in PollResponses}

\* The polls _with_notifications is tried on: the failing ones, and a
\* success with no list, an empty list, or a list of items with two
\* different contents or without the content key.
NotifItems2 == NotifItems \cup {[content |-> "n2"]}

NotifLists2 == UNION {[1..n -> NotifItems2] : n \in 0..MaxNotifs}

PollResponses2 ==
    ErrorResponses
    \cup {Response("ok", 200, TRUE, d, "")
            : d \in {<<>>} \cup {[notifications |-> ns] : ns \in NotifLists2}}

\* The primary result texts: one line, and two lines.
ResultTexts == {<< <<"t1">> >>, << <<"t1">>, <<"t2">> >>}

NotifyInputs ==
    {[result |-> t, poll |-> r] : t \in ResultTexts, r \in PollResponses2}

(***************************************************************************)
(* Specification SpecRef: fmt_reference applied to every bounded payload.  *)
(***************************************************************************)

Inv == {"i1", "i2"}

\* The variables of the parts a specification does not exercise.
RefIdle  == refData = [nodes |-> <<>>, edges |-> <<>>] /\ refOut = None
BodyIdle == call = None /\ shaped = <<>>
GwIdle ==
    /\ pc = [i \in Inv |-> "idle"]
    /\ tool = [i \in Inv |-> None]
    /\ args = [i \in Inv |-> <<>>]
    /\ reqs = [i \in Inv |-> <<>>]
    /\ trace = [i \in Inv |-> <<>>]
    /\ resp = [i \in Inv |-> NoResponse]
    /\ text = [i \in Inv |-> None]
    /\ poll = [i \in Inv |-> NoResponse]
    /\ ret = [i \in Inv |-> None]
    /\ exc = [i \in Inv |-> NoException]
    /\ client = [state |-> "None", created |-> 0]
NoConn   == [id |-> 0, found |-> "-", epoch |-> 0]
ConnIdle == conn = [i \in Inv |-> NoConn] /\ closes = 0
FnIdle   == fn = None /\ fnIn = <<>> /\ fnOut = <<>>
DryIdle  == store = {} /\ dryLog = <<>>
ExtIdle  == ConnIdle /\ FnIdle /\ DryIdle

RefInit ==
    /\ refData \in RefInputs
    /\ refOut = None
    /\ BodyIdle
    /\ GwIdle
    /\ ExtIdle

\* The reference tool's renderer runs on the payload.
RefRender ==
    /\ refOut = None
    /\ refOut' = fmt_reference(refData)
    /\ UNCHANGED <<refData, bodyVars, gwVars, extVars>>

RefNext == RefRender

SpecRef == RefInit /\ [][RefNext]_vars

(***************************************************************************)
(* Specification SpecBody: every tool shapes every combination of          *)
(* supplied and unsupplied parameters into its outgoing body.              *)
(***************************************************************************)

Calls == UNION {{[tool |-> t, supplied |-> s] : s \in Supplied(t)} : t \in ToolNames}

BodyInit ==
    /\ call \in Calls
    /\ shaped = <<>>
    /\ RefIdle
    /\ GwIdle
    /\ ExtIdle

\* The tool builds the body it hands to client.post / client.get.
ShapeCall ==
    /\ shaped = <<>>
    /\ shaped' = <<BuildBody(call.tool, call.supplied)>>
    /\ UNCHANGED <<call, refVars, gwVars, extVars>>

BodyNext == ShapeCall

SpecBody == BodyInit /\ [][BodyNext]_vars

(***************************************************************************)
(* Specification Spec: concurrent tool invocations.  Each action is the    *)
(* code of one invocation between two awaits.                              *)
(***************************************************************************)

\* What the agent supplies in this specification: the required parameters
\* and, where the tool has one, dry_run; SpecBody covers every combination.
GwSupplied(t) ==
    UNION {Assignments(t, {q.name : q \in Required(t)} \cup O)
              : O \in SUBSET ({q.name : q \in Optional(t)} \cap {"dry_run"})}

\* The calls the agent makes in this specification.
GwCalls == UNION {{[tool |-> t, supplied |-> s] : s \in GwSupplied(t)} : t \in ToolNames}

Init == GwIdle /\ RefIdle /\ BodyIdle /\ ExtIdle

\* The agent calls tool t: the tool builds its body and awaits
\* client.post / client.get, which takes the connection and sends.
Invoke(i, t, s) ==
    /\ pc[i] = "idle"
    /\ client' = get_client(client)
    /\ tool' = [tool EXCEPT ![i] = t]
    /\ args' = [args EXCEPT ![i] = s]
    /\ reqs' = [reqs EXCEPT ![i] = <<PrimaryRequest(t, s)>>]
    /\ trace' = [trace EXCEPT ![i] = <<"primary_sent">>]
    /\ pc' = [pc EXCEPT ![i] = "primary_wait"]
    /\ UNCHANGED <<resp, text, poll, ret, exc, refVars, bodyVars, extVars>>

\* Faulty variant: the client sends the failed request a second time.
PrimaryFailsRetry(i, r) ==
    /\ pc[i] = "primary_wait"
    /\ Failed(r)
    /\ Len(reqs[i]) < 2
    /\ resp' = [resp EXCEPT ![i] = r]
    /\ reqs' = [reqs EXCEPT ![i] = Append(@, reqs[i][1])]
    /\ trace' = [trace EXCEPT ![i] = Append(@, "primary_sent")]
    /\ UNCHANGED <<pc, tool, args, text, poll, ret, exc, client, refVars, bodyVars, extVars>>

\* Faulty variant: the tool catches the error and returns a text.
PrimaryFailsSwallowed(i, r) ==
    /\ pc[i] = "primary_wait"
    /\ Failed(r)
    /\ resp' = [resp EXCEPT ![i] = r]
    /\ text' = [text EXCEPT ![i] = <<<<"Failed: ", client_raises(r).detail>>>>]
    /\ ret' = [ret EXCEPT ![i] = <<<<"Failed: ", client_raises(r).detail>>>>]
    /\ trace' = [trace EXCEPT ![i] = Append(@, "primary_failed")]
    /\ pc' = [pc EXCEPT ![i] = "done"]
    /\ UNCHANGED <<tool, args, reqs, poll, exc, client, refVars, bodyVars, extVars>>

\* The primary call fails: post/get raise, no tool has a handler, and the
\* invocation ends with that exception.
PrimaryFails(i, r) ==
    /\ pc[i] = "primary_wait"
    /\ Failed(r)
    /\ resp' = [resp EXCEPT ![i] = r]
    /\ exc' = [exc EXCEPT ![i] = client_raises(r)]
    /\ trace' = [trace EXCEPT ![i] = Append(@, "primary_failed")]
    /\ pc' = [pc EXCEPT ![i] = "failed"]
    /\ UNCHANGED <<tool, args, reqs, text, poll, ret, client, refVars, bodyVars, extVars>>

\* The primary call returns its JSON: the tool renders it and, in the user
\* server, awaits the notification poll; an admin tool returns the text.
PrimarySucceeds(i, r) ==
    /\ pc[i] = "primary_wait"
    /\ ~Failed(r)
    /\ resp' = [resp EXCEPT ![i] = r]
    /\ text' = [text EXCEPT ![i] = Render(tool[i], args[i], r.json)]
    /\ IF Wraps(tool[i])
       THEN /\ client' = get_client(client)
            /\ reqs' = [reqs EXCEPT ![i] = Append(@, PollRequest)]
            /\ trace' = [trace EXCEPT ![i] =
                            @ \o <<"primary_returned", "rendered", "poll_sent">>]
            /\ pc' = [pc EXCEPT ![i] = "poll_wait"]
            /\ UNCHANGED ret
       ELSE /\ ret' = [ret EXCEPT ![i] = text'[i]]
            /\ trace' = [trace EXCEPT ![i] = @ \o <<"primary_returned", "rendered">>]
            /\ pc' = [pc EXCEPT ![i] = "done"]
            /\ UNCHANGED <<reqs, client>>
    /\ UNCHANGED <<tool, args, poll, exc, refVars, bodyVars, extVars>>

\* Faulty variant: fetch_and_format has no except clause.
PollFailsRaises(i, r) ==
    /\ pc[i] = "poll_wait"
    /\ Failed(r)
    /\ poll' = [poll EXCEPT ![i] = r]
    /\ exc' = [exc EXCEPT ![i] = client_raises(r)]
    /\ trace' = [trace EXCEPT ![i] = Append(@, "poll_failed")]
    /\ pc' = [pc EXCEPT ![i] = "failed"]
    /\ UNCHANGED <<tool, args, reqs, resp, text, ret, client, refVars, bodyVars, extVars>>

\* The poll fails inside client.get: fetch_and_format catches the
\* exception and returns None, and the tool returns its result as it is.
PollFails(i, r) ==
    /\ pc[i] = "poll_wait"
    /\ Failed(r)
    /\ poll' = [poll EXCEPT ![i] = r]
    /\ ret' = [ret EXCEPT ![i] = with_notifications(text[i], r)]
    /\ trace' = [trace EXCEPT ![i] = Append(@, "poll_failed")]
    /\ pc' = [pc EXCEPT ![i] = "done"]
    /\ UNCHANGED <<tool, args, reqs, resp, text, exc, client, refVars, bodyVars, extVars>>

\* The poll returns its JSON: fetch_and_format formats the notifications
\* (n['content'] raises KeyError past the try block) and the tool returns.
PollSucceeds(i, r) ==
    /\ pc[i] = "poll_wait"
    /\ ~Failed(r)
    /\ poll' = [poll EXCEPT ![i] = r]
    /\ trace' = [trace EXCEPT ![i] = Append(@, "poll_returned")]
    /\ IF fetch_raises(r) # NoException
       THEN /\ exc' = [exc EXCEPT ![i] = fetch_raises(r)]
            /\ pc' = [pc EXCEPT ![i] = "failed"]
            /\ UNCHANGED ret
       ELSE /\ ret' = [ret EXCEPT ![i] = with_notifications(text[i], r)]
            /\ pc' = [pc EXCEPT ![i] = "done"]
            /\ UNCHANGED exc
    /\ UNCHANGED <<tool, args, reqs, resp, text, client, refVars, bodyVars, extVars>>

\* The agent has the result (or the failure); the invocation is over.
Return(i) ==
    /\ pc[i] \in {"done", "failed"}
    /\ pc' = [pc EXCEPT ![i] = "idle"]
    /\ tool' = [tool EXCEPT ![i] = None]
    /\ args' = [args EXCEPT ![i] = <<>>]
    /\ reqs' = [reqs EXCEPT ![i] = <<>>]
    /\ trace' = [trace EXCEPT ![i] = <<>>]
    /\ resp' = [resp EXCEPT ![i] = NoResponse]
    /\ text' = [text EXCEPT ![i] = None]
    /\ poll' = [poll EXCEPT ![i] = NoResponse]
    /\ ret' = [ret EXCEPT ![i] = None]
    /\ exc' = [exc EXCEPT ![i] = NoException]
    /\ UNCHANGED <<client, refVars, bodyVars, extVars>>

Next ==
    \/ \E i \in Inv, c \in GwCalls : Invoke(i, c.tool, c.supplied)
    \/ \E i \in Inv : \E r \in PrimaryResponses(tool[i]) : PrimaryFails(i, r)
    \/ \E i \in Inv : \E r \in PrimaryResponses(tool[i]) : PrimarySucceeds(i, r)
    \/ \E i \in Inv : \E r \in PollResponses : PollFails(i, r)
    \/ \E i \in Inv : \E r \in PollResponses : PollSucceeds(i, r)
    \/ \E i \in Inv : Return(i)

Spec == Init /\ [][Next]_vars

(***************************************************************************)
(* Specification SpecConn: the shared connection under concurrent calls    *)
(* while the environment closes it.  Each call of post / get takes the     *)
(* connection with _get_client() and sends on it before its first await.   *)
(***************************************************************************)

\* Bound: how many times the environment closes the connection.
MaxCloses == 3

\* The connection a call sends on: what _get_client() found and returned.
Taken(c, n) == [id |-> get_client(c).created, found |-> c.state, epoch |-> n]

ConnInit == GwIdle /\ RefIdle /\ BodyIdle /\ ExtIdle

\* A tool starts: its primary post / get takes the connection and awaits.
ConnSend(i) ==
    /\ pc[i] = "idle"
    /\ get_client(client).created <= MaxCloses + 1
    /\ client' = get_client(client)
    /\ conn' = [conn EXCEPT ![i] = Taken(client, closes)]
    /\ pc' = [pc EXCEPT ![i] = "primary_wait"]
    /\ UNCHANGED <<tool, args, reqs, trace, resp, text, poll, ret, exc, closes,
                   refVars, bodyVars, fnVars, dryVars>>

\* The primary call returned: the notification poll takes the connection.
ConnPoll(i) ==
    /\ pc[i] = "primary_wait"
    /\ get_client(client).created <= MaxCloses + 1
    /\ client' = get_client(client)
    /\ conn' = [conn EXCEPT ![i] = Taken(client, closes)]
    /\ pc' = [pc EXCEPT ![i] = "poll_wait"]
    /\ UNCHANGED <<tool, args, reqs, trace, resp, text, poll, ret, exc, closes,
                   refVars, bodyVars, fnVars, dryVars>>

\* The call in flight ends and the invocation returns or raises.
ConnReturn(i) ==
    /\ pc[i] \in {"primary_wait", "poll_wait"}
    /\ conn' = [conn EXCEPT ![i] = NoConn]
    /\ pc' = [pc EXCEPT ![i] = "idle"]
    /\ UNCHANGED <<tool, args, reqs, trace, resp, text, poll, ret, exc, client,
                   closes, refVars, bodyVars, fnVars, dryVars>>

\* The environment closes the open connection (is_closed becomes true).
CloseClient ==
    /\ client.state = "open"
    /\ closes < MaxCloses
    /\ client' = [client EXCEPT !.state = "closed"]
    /\ closes' = closes + 1
    /\ UNCHANGED <<pc, tool, args, reqs, trace, resp, text, poll, ret, exc, conn,
                   refVars, bodyVars, fnVars, dryVars>>

ConnNext ==
    \/ \E i \in Inv : ConnSend(i)
    \/ \E i \in Inv : ConnPoll(i)
    \/ \E i \in Inv : ConnReturn(i)
    \/ CloseClient

SpecConn == ConnInit /\ [][ConnNext]_vars

(***************************************************************************)
(* Specification SpecFn: the pure functions of the gateway, each applied   *)
(* to every argument of a bounded set.                                     *)
(***************************************************************************)

FnCalls ==
    ({"post", "get"} \X ClientResponses)
    \cup ({"fmt_find"} \X FindPayloads)
    \cup ({"fmt_roots"} \X RootsPayloads)
    \cup ({"fmt_admin"} \X AdminPayloads)
    \cup ({"fmt_reference"} \X RefPartial)
    \cup ({"observe"} \X ObserveInputs)
    \cup ({"with_notifications"} \X NotifyInputs)
    \cup ({"resolves_by", "ts"} \X TsInputs)
    \cup ({"pct"} \X PctValues)

FnInit ==
    /\ \E c \in FnCalls : fn = c[1] /\ fnIn = c[2]
    /\ fnOut = <<>>
    /\ GwIdle /\ RefIdle /\ BodyIdle /\ ConnIdle /\ DryIdle

\* One call of function f: the result is recorded.
Apply(f, result) ==
    /\ fn = f
    /\ fnOut = <<>>
    /\ fnOut' = <<result>>
    /\ UNCHANGED <<fn, fnIn, refVars, bodyVars, gwVars, connVars, dryVars>>

\* client.post / client.get receive response fnIn.
ApplyPost == Apply("post", client_call(fnIn))
ApplyGet  == Apply("get", client_call(fnIn))

\* A renderer receives payload fnIn.
ApplyFmtFind      == Apply("fmt_find", Returned(fmt_find(fnIn)))
ApplyFmtRoots     == Apply("fmt_roots", Returned(fmt_roots(fnIn)))
ApplyFmtAdmin     == Apply("fmt_admin", Returned(fmt_admin(fnIn)))
ApplyFmtReference == Apply("fmt_reference", fmt_reference(fnIn))

\* observe runs from the return of its backend call to its own return.
ApplyObserve == Apply("observe", observe_tool(fnIn))

\* _with_notifications(result) with the poll answered by fnIn.poll.
ApplyWithNotifications ==
    Apply("with_notifications", notified(fnIn.result, fnIn.poll))

\* _resolves_by and _ts receive timestamp fnIn.
ApplyResolvesBy == Apply("resolves_by", resolves_by(fnIn))
ApplyTs         == Apply("ts", ts_text(fnIn))

\* _pct receives value fnIn.
ApplyPct == Apply("pct", pct(fnIn))

FnNext ==
    \/ ApplyPost
    \/ ApplyGet
    \/ ApplyFmtFind
    \/ ApplyFmtRoots
    \/ ApplyFmtAdmin
    \/ ApplyFmtReference
    \/ ApplyObserve
    \/ ApplyWithNotifications
    \/ ApplyResolvesBy
    \/ ApplyTs
    \/ ApplyPct

SpecFn == FnInit /\ [][FnNext]_vars

(***************************************************************************)
(* Specification SpecDry: destructive admin tools called one after         *)
(* another against a backend.  The backend is not part of the gateway      *)
(* sources; it is modelled from the specification: a dry run reports what  *)
(* the operation would affect and changes nothing, a real run performs it. *)
(***************************************************************************)

\* Bound: the number of calls and foreign writes in one run.
MaxCalls == 3

\* The backend holding memory v with its derived memory m2, one queue
\* event and one stale condition vector.
FullStore == [memories |-> {"v", "m2"}, events |-> 1, vectors |-> 1]

\* The backend's answer to request rq in state st, and its next state.
backend(st, rq) ==
    LET body == rq.body
        dry  == Get(body, "dry_run", "False")
        real == dry # "True"
    IN  CASE rq.path = "/api/admin/bulk-retract" ->
              LET hit  == IF Get(body, "memory_id", None) \in st.memories
                          THEN <<Get(body, "memory_id", None)>> ELSE <<>>
                  down == IF hit # <<>> /\ Get(body, "cascade", "False") = "True"
                             /\ "m2" \in st.memories /\ hit # <<"m2">>
                          THEN <<"m2">> ELSE <<>>
                  all  == hit \o down
              IN  IF real
                  THEN [data  |-> [success |-> "True", retracted |-> Len(hit),
                                   cascade_retracted |-> Len(down),
                                   reason |-> Get(body, "reason", "")],
                        store |-> [st EXCEPT !.memories =
                                        @ \ {all[k] : k \in DOMAIN all}]]
                  ELSE [data  |-> [success |-> "True", dry_run |-> "True",
                                   would_retract |->
                                       [k \in DOMAIN all |->
                                           [id |-> all[k], content |-> <<"a">>]]],
                        store |-> st]
          [] rq.path = "/api/admin/queue-purge" ->
              [data  |-> [success |-> "True", purged |-> st.events, dry_run |-> dry],
               store |-> IF real THEN [st EXCEPT !.events = 0] ELSE st]
          [] OTHER ->
              [data  |-> [success |-> "True", cleaned |-> st.vectors, dry_run |-> dry],
               store |-> IF real THEN [st EXCEPT !.vectors = 0] ELSE st]

\* The calls of the destructive tools: the required parameters, with
\* dry_run and cascade left unset or set either way.
DryCalls ==
    UNION {{[tool |-> t, supplied |-> s] :
              s \in UNION {Assignments(t, {q.name : q \in Required(t)} \cup O)
                            : O \in SUBSET ({q.name : q \in Optional(t)}
                                              \cap {"dry_run", "cascade"})}}
              : t \in {u \in AdminToolNames : ToolOf(u).annot = "destructive"}}

DryInit ==
    /\ store \in {FullStore, [memories |-> {}, events |-> 0, vectors |-> 0]}
    /\ dryLog = <<>>
    /\ GwIdle /\ RefIdle /\ BodyIdle /\ ConnIdle /\ FnIdle

\* One invocation of a destructive tool, from the call to its return:
\* body, post on the shared connection, the backend's answer, fmt_admin.
DryCall(c) ==
    /\ Len(dryLog) < MaxCalls
    /\ LET rq  == PrimaryRequest(c.tool, c.supplied)
           ans == backend(store, rq)
           r   == Response("ok", 200, TRUE, ans.data, "")
       IN  /\ client' = get_client(client)
           /\ store' = ans.store
           /\ dryLog' = Append(dryLog,
                  [kind |-> "call", tool |-> c.tool, supplied |-> c.supplied,
                   request |-> rq, before |-> store, after |-> ans.store,
                   result |-> Returned(fmt_admin(client_call(r).value))])
    /\ UNCHANGED <<pc, tool, args, reqs, trace, resp, text, poll, ret, exc,
                   refVars, bodyVars, connVars, fnVars>>

\* Another writer of the backend restores what was retracted and purged.
OtherWriter ==
    /\ Len(dryLog) < MaxCalls
    /\ store # FullStore
    /\ store' = FullStore
    /\ dryLog' = Append(dryLog, [kind |-> "writer"])
    /\ UNCHANGED <<refVars, bodyVars, gwVars, connVars, fnVars>>

DryNext ==
    \/ \E c \in DryCalls : DryCall(c)
    \/ OtherWriter

SpecDry == DryInit /\ [][DryNext]_vars

(***************************************************************************)
(* Claims about fmt_reference (specification SpecRef)                      *)
(***************************************************************************)

RefRoot  == Get(refData, "root", "?")
RefEdges == Get(refData, "edges", <<>>)
RefNodes == Get(refData, "nodes", <<>>)
RefRendered == refOut # None /\ RefNodes # <<>>

HasEdge(s, t) == \E k \in DOMAIN RefEdges : RefEdges[k] = Edge(s, t)

RECURSIVE ReachFrom(_)
\* The ids reachable from the set S along the edges of the payload.
ReachFrom(S) ==
    LET T == S \cup {t \in Ids : \E s \in S : HasEdge(s, t)}
    IN  IF T = S THEN S ELSE ReachFrom(T)

LineIds(mark) == {refOut[k].id : k \in {j \in DOMAIN refOut : refOut[j].mark = mark}}

\* C1: for every root, node list and edge list (self-loops, cycles back to
\* the root, mutual edges, several paths to one node) the render completes
\* and no node id has two lines: the root is only the first line and no id
\* is rendered twice, be it as a descendant (">") or as an ancestor ("<").
C1_EachNodeAtMostOnce ==
    refOut # None =>
        /\ \A j, k \in DOMAIN refOut : refOut[j].id = refOut[k].id => j = k
        /\ \A k \in DOMAIN refOut : refOut[k].id = RefRoot => k = 1
        /\ Len(refOut) <= Cardinality(Ids) + 1

\* C1 witness: rendered graph with a cycle back to the root, a self-loop
\* on the root and a second path to the same child.
C1_Witness ==
    /\ RefRendered
    /\ \E x \in Ids \ {RefRoot} :
          /\ HasEdge(RefRoot, x) /\ HasEdge(x, RefRoot) /\ HasEdge(RefRoot, RefRoot)
          /\ refOut[Len(refOut)].id = x
    /\ Len(refOut) = 2

\* The payload of the end-to-end scenario: nodes [m1, m2, m3], edges
\* m1->m2 and m3->m1, root m1.
ScenarioData ==
    [root |-> "m1", nodes |-> <<Node("m1"), Node("m2"), Node("m3")>>,
     edges |-> <<Edge("m1", "m2"), Edge("m3", "m1")>>]

\* C2: the root label comes first, then every descendant line, and only
\* after all of them the ancestor lines: one "<" line at one indent level
\* for each direct parent of the root not rendered before, none for an
\* ancestor further away.  The scenario payload renders as the m1 label,
\* one indented ">" line for m2, one "<" line for m3.
C2_RootDescendantsThenParents ==
    RefRendered =>
        /\ refOut[1] = Line(0, "", label(NodeMap(RefNodes), RefRoot))
        /\ \A k \in 2..Len(refOut) : refOut[k].mark \in {">", "<"}
        /\ \A j, k \in DOMAIN refOut :
              (refOut[j].mark = "<" /\ refOut[k].mark = ">") => k < j
        /\ LineIds(">") = ReachFrom({RefRoot}) \ {RefRoot}
        /\ LineIds("<") = {p \in Ids : HasEdge(p, RefRoot)}
                              \ ({RefRoot} \cup LineIds(">"))
        /\ \A k \in DOMAIN refOut : refOut[k].mark = "<" => refOut[k].indent = 1
        /\ refData = ScenarioData =>
              refOut = <<Line(0, "", label(NodeMap(RefNodes), "m1")),
                         Line(1, ">", label(NodeMap(RefNodes), "m2")),
                         Line(1, "<", label(NodeMap(RefNodes), "m3"))>>

\* C2 witness: the scenario payload has been rendered.
C2_Witness == refData = ScenarioData /\ refOut # None /\ Len(refOut) = 3

\* A second case of C2: a grandparent of the root is in the payload and
\* only the direct parent is rendered.
C2_WitnessTwoHops ==
    /\ RefRendered
    /\ \E p, g \in Ids \ {RefRoot} :
          /\ p # g /\ HasEdge(p, RefRoot) /\ HasEdge(g, p) /\ ~HasEdge(g, RefRoot)
          /\ LineIds("<") = {p}
          /\ g \notin LineIds(">")

(***************************************************************************)
(* Claims about parameter shaping (specification SpecBody)                 *)
(***************************************************************************)

Destructive == {t \in ToolNames : ToolOf(t).annot = "destructive"}

WasShaped == shaped # <<>>
Body      == shaped[1]
Unset(q)  == q.name \notin DOMAIN call.supplied

\* C7: every destructive tool (queue_purge, condition_vectors_cleanup,
\* bulk_retract) has a dry_run parameter defaulting to true, and the
\* dry_run of the outgoing body is the caller's value, or true when the
\* caller gave none: dry_run=false is sent only when the caller passed it.
C7_DryRunForwarded ==
    /\ Destructive = {"queue_purge", "condition_vectors_cleanup", "bulk_retract"}
    /\ \A t \in Destructive :
          \E q \in Params(t) : q.name = "dry_run" /\ q.dflt = "True"
    /\ (WasShaped /\ call.tool \in Destructive) =>
          /\ "dry_run" \in DOMAIN Body
          /\ Body["dry_run"] = IF "dry_run" \in DOMAIN call.supplied
                               THEN call.supplied["dry_run"] ELSE "True"

\* C7 witness: queue_purge called without dry_run sends dry_run=true, and
\* (second disjunct) bulk_retract called with dry_run=false sends false.
C7_Witness ==
    /\ WasShaped
    /\ call.tool = "queue_purge"
    /\ "dry_run" \notin DOMAIN call.supplied
    /\ Body["dry_run"] = "True"

C7_WitnessFalse ==
    /\ WasShaped
    /\ call.tool = "bulk_retract"
    /\ "dry_run" \in DOMAIN call.supplied
    /\ call.supplied["dry_run"] = "False"
    /\ Body["dry_run"] = "False"

\* C8 as stated: for every tool and every combination of supplied and
\* unsupplied optional parameters, the body has no key for an optional
\* parameter the caller left unset and holds no null value.
C8_OnlyMentionedFields ==
    WasShaped =>
        /\ \A q \in Optional(call.tool) : Unset(q) => q.name \notin DOMAIN Body
        /\ \A k \in DOMAIN Body : Body[k] # None

\* The flags a tool sends only when they are true.
FlagParams == {"force", "overdue", "raw", "include_samples"}

\* C8 amended: the body never holds a null value and has no key for an
\* unset optional parameter whose default is None; an unset optional
\* parameter with a non-null default is sent with that default, except the
\* flags force, overdue, raw and include_samples (sent only when true) and
\* the path parameter view; every key is a declared parameter.
C8_NoNullNoUnsetNoneDefault ==
    WasShaped =>
        /\ \A k \in DOMAIN Body : Body[k] # None
        /\ DOMAIN Body \subseteq {q.name : q \in Params(call.tool)}
        /\ \A q \in Optional(call.tool) :
              Unset(q) =>
                 /\ q.dflt = None => q.name \notin DOMAIN Body
                 /\ q.dflt # None =>
                      IF q.name \in FlagParams \cup {"view"}
                      THEN q.name \notin DOMAIN Body
                      ELSE q.name \in DOMAIN Body /\ Body[q.name] = q.dflt

\* C8 witness: update called with memory_id and tags only sends exactly
\* these two fields.
C8_Witness ==
    /\ WasShaped
    /\ call.tool = "update"
    /\ DOMAIN call.supplied = {"memory_id", "tags"}
    /\ DOMAIN Body = {"memory_id", "tags"}

(***************************************************************************)
(* Claims about the invocation protocol (specification Spec)               *)
(***************************************************************************)

Polled(i)        == \E k \in DOMAIN reqs[i] : IsPoll(reqs[i][k])
PrimaryFailed(i) == resp[i].kind # "none" /\ Failed(resp[i])
PrimaryOk(i)     == resp[i].kind # "none" /\ ~Failed(resp[i])
PollAnswered(i)  == poll[i].kind # "none"

\* Position of the first occurrence of event e in the trace of i (0: none).
At(i, e) ==
    IF \E k \in DOMAIN trace[i] : trace[i][k] = e
    THEN CHOOSE k \in DOMAIN trace[i] :
            trace[i][k] = e /\ \A j \in 1..(k - 1) : trace[i][j] # e
    ELSE 0

C4_PollAfterPrimaryAndRender ==
    \A i \in Inv :
        /\ pc[i] = "primary_wait" => ~Polled(i)
        /\ Polled(i) =>
              /\ PrimaryOk(i)
              /\ text[i] # None
              /\ ~IsPoll(reqs[i][1])
              /\ 0 < At(i, "primary_sent")
              /\ At(i, "primary_sent") < At(i, "primary_returned")
              /\ At(i, "primary_returned") < At(i, "rendered")
              /\ At(i, "rendered") < At(i, "poll_sent")

\* C4 witness: one invocation waits for its poll while the other still
\* waits for its primary call.
C4_Witness ==
    \E i, j \in Inv :
        /\ i # j
        /\ pc[i] = "poll_wait" /\ Polled(i) /\ text[i] # None
        /\ pc[j] = "primary_wait"

\* C5: when the poll fails (connection error, backend unreachable,
\* non-success status) fetch_and_format returns absent and the invocation
\* returns exactly its rendered result, without a header and without error.
C5_FailedPollLeavesResult ==
    \A i \in Inv :
        (PollAnswered(i) /\ Failed(poll[i])) =>
            /\ fetch_and_format(poll[i]) = None
            /\ pc[i] = "done"
            /\ exc[i] = NoException
            /\ ret[i] = text[i]
            /\ ret[i] = Render(tool[i], args[i], resp[i].json)

\* C5 witness: find returned its rendered result after a poll that could
\* not connect.
C5_Witness ==
    \E i \in Inv :
        /\ tool[i] = "find" /\ pc[i] = "done"
        /\ poll[i].kind = "network_error"
        /\ ret[i] = <<<<"fmt_find", ToString([success |-> "True"])>>>>

\* C6: nothing the notification channel does fails an invocation whose
\* primary call succeeded: whatever the poll answers, an error or any
\* payload (also an item without content), the invocation returns a text.
C6_PollNeverFailsInvocation ==
    \A i \in Inv :
        (PrimaryOk(i) /\ PollAnswered(i)) =>
            /\ pc[i] = "done"
            /\ exc[i] = NoException
            /\ ret[i] # None

\* C9: every invocation sends exactly one primary request, the one its
\* tool shaped; post and get send one request per call and never re-send:
\* a failed primary request ends the invocation at once.
C9_OnePrimaryRequestNoRetry ==
    \A i \in Inv :
        pc[i] # "idle" =>
            /\ Cardinality({k \in DOMAIN reqs[i] : ~IsPoll(reqs[i][k])}) = 1
            /\ Cardinality({k \in DOMAIN reqs[i] : IsPoll(reqs[i][k])}) <= 1
            /\ reqs[i][1] = PrimaryRequest(tool[i], args[i])
            /\ PrimaryFailed(i) => (pc[i] = "failed" /\ Len(reqs[i]) = 1)

\* C9 witness: an invocation failed on its primary request, sent once.
C9_Witness ==
    \E i \in Inv :
        /\ pc[i] = "failed" /\ PrimaryFailed(i)
        /\ reqs[i] = <<PrimaryRequest(tool[i], args[i])>>

\* C10: when the primary call fails the invocation ends in failure with
\* the error the Backend Client raised: no text is rendered or returned
\* in its place and nothing else follows.
C10_PrimaryErrorPropagates ==
    \A i \in Inv :
        PrimaryFailed(i) =>
            /\ pc[i] = "failed"
            /\ exc[i] = client_raises(resp[i])
            /\ exc[i] # NoException
            /\ text[i] = None
            /\ ret[i] = None
            /\ ~Polled(i)

\* C10 witness: an invocation failed with the APIError of a 500 response
\* carrying the backend's error message.
C10_Witness ==
    \E i \in Inv :
        /\ pc[i] = "failed"
        /\ resp[i].kind = "http_error"
        /\ exc[i] = Exception("APIError", 500, "e")
        /\ ret[i] = None

(***************************************************************************)
(* Claims about the shared connection (specification SpecConn)             *)
(***************************************************************************)

InFlight(i) == pc[i] \in {"primary_wait", "poll_wait"}

\* C11: the shared connection is created on first use, reused by every
\* later call while it is open, and re-created exactly once after it is
\* found absent or closed: the number of connections ever created is one
\* more than the number of closes while a connection is open and equal to
\* it while the connection is closed; every call in flight was sent on the
\* one connection of the period between two closes in which it was made,
\* so concurrent calls made after the same close share one new connection,
\* and a call that found the connection open created none.
C11_OneConnectionPerClose ==
    /\ client.state = "None" => client.created = 0 /\ closes = 0
    /\ client.state = "open" => client.created = closes + 1
    /\ client.state = "closed" => client.created = closes
    /\ \A i \in Inv : InFlight(i) =>
            /\ conn[i].id = conn[i].epoch + 1
            /\ conn[i].id <= client.created
    /\ \A i, j \in Inv :
            InFlight(i) /\ InFlight(j) /\ conn[i].epoch = conn[j].epoch
                => conn[i].id = conn[j].id

\* Two concurrent calls made after a close: the first found the connection
\* closed and re-created it, the second found the new one open and reused it.
C11_Witness ==
    \E i, j \in Inv :
        /\ i # j /\ InFlight(i) /\ InFlight(j)
        /\ conn[i].found = "closed" /\ conn[j].found = "open"
        /\ conn[i].epoch = 1 /\ conn[j].epoch = 1
        /\ conn[i].id = 2 /\ conn[j].id = 2
        /\ client = [state |-> "open", created |-> 2]

(***************************************************************************)
(* Claims about the pure functions (specification SpecFn)                  *)
(***************************************************************************)

Called(f) == fn = f /\ fnOut # <<>>
Out       == fnOut[1]

IsHttp(r)    == r.kind \in {"ok", "http_error"}
Present(r, k) == r.is_json /\ IsDict(r.json) /\ k \in DOMAIN r.json
NonEmpty(r, k) == Present(r, k) /\ r.json[k] # None /\ r.json[k] # ""

\* C12 as stated: for every non-success HTTP response post and get raise
\* the typed error with the status code and a detail that is the body's
\* error field when present, else its message field when present, else the
\* raw response text; for every success response nothing is raised and the
\* parsed JSON is returned.
C12_DetailFromPresentFields ==
    (Called("post") \/ Called("get")) /\ IsHttp(fnIn) =>
        IF fnIn.kind = "http_error"
        THEN Out.raised =
                Exception("APIError", fnIn.status,
                    IF Present(fnIn, "error") THEN fnIn.json["error"]
                    ELSE IF Present(fnIn, "message") THEN fnIn.json["message"]
                    ELSE fnIn.text)
        ELSE Out.raised = NoException /\ Out.value = fnIn.json

\* C12 amended: a field counts only when it is present and not empty or
\* null; without such a field the detail is the raw text, and the reason
\* phrase of the status when the response has no text; a success response
\* returns its parsed JSON when its body is JSON and raises the decode
\* error otherwise.
C12_DetailFromNonEmptyFields ==
    (Called("post") \/ Called("get")) /\ IsHttp(fnIn) =>
        IF fnIn.kind = "http_error"
        THEN /\ Out.raised.type = "APIError"
             /\ Out.raised.status = fnIn.status
             /\ Out.raised.detail =
                    IF NonEmpty(fnIn, "error") THEN fnIn.json["error"]
                    ELSE IF NonEmpty(fnIn, "message") THEN fnIn.json["message"]
                    ELSE IF fnIn.text # "" THEN fnIn.text
                    ELSE reason_phrase(fnIn.status)
             /\ Out.value = None
        ELSE IF fnIn.is_json
             THEN Out.raised = NoException /\ Out.value = fnIn.json
             ELSE Out.raised.type = "JSONDecodeError" /\ Out.value = None

\* A 404 whose error field is empty and whose message field is filled.
C12_Witness ==
    /\ Called("post")
    /\ fnIn.status = 404 /\ fnIn.is_json
    /\ fnIn.json = [error |-> "", message |-> "m"]
    /\ Out.raised = Exception("APIError", 404, "m")

(***************************************************************************)
(* Claims about the tool annotations (specification SpecBody)              *)
(***************************************************************************)

\* The contract annotation a combination of hints amounts to.
Annotation(h) ==
    CASE h.readOnlyHint = "True" -> "read-only"
      [] h.readOnlyHint = "False" /\ h.destructiveHint = "True"
            -> "mutating-destructive"
      [] h.readOnlyHint = "False" /\ h.destructiveHint = "False"
         /\ h.idempotentHint = "True"
            -> "mutating-idempotent"
      [] h.readOnlyHint = "False" /\ h.destructiveHint = "False"
         /\ h.idempotentHint \in {"False", None}
            -> "mutating-plain"
      [] OTHER -> "undeclared"

\* C13 as stated: every tool of the user set and of the admin set carries
\* exactly one of the three annotations read-only, mutating-idempotent or
\* mutating-destructive, and no other combination of the flags.
C13_OneOfThreeAnnotations ==
    WasShaped =>
        Annotation(HintsOf(call.tool))
            \in {"read-only", "mutating-idempotent", "mutating-destructive"}

\* C13 amended: there is a fourth combination, mutating and neither
\* destructive nor idempotent, carried by observe and update (idempotent
\* false) and by memory_state, re_evaluate_violations and backfill_surprise
\* (idempotent not set); resolve, refresh_stats and override are
\* mutating-idempotent, queue_purge, condition_vectors_cleanup and
\* bulk_retract mutating-destructive, and every other tool read-only.
C13_OneOfFourAnnotations ==
    WasShaped =>
        LET a == Annotation(HintsOf(call.tool)) IN
        /\ a \in {"read-only", "mutating-idempotent", "mutating-destructive",
                  "mutating-plain"}
        /\ a = "mutating-plain" <=>
                call.tool \in {"observe", "update", "memory_state",
                               "re_evaluate_violations", "backfill_surprise"}
        /\ a = "mutating-idempotent" <=>
                call.tool \in {"resolve", "refresh_stats", "override"}
        /\ a = "mutating-destructive" <=>
                call.tool \in {"queue_purge", "condition_vectors_cleanup",
                               "bulk_retract"}
        /\ call.tool \in {"observe", "update"} =>
                HintsOf(call.tool).idempotentHint = "False"

C13_Witness ==
    /\ WasShaped
    /\ call.tool = "observe"
    /\ HintsOf(call.tool) = ToolAnnotations("False", "False", "False")
    /\ Annotation(HintsOf(call.tool)) = "mutating-plain"

(***************************************************************************)
(* Claims about the renderers (specification SpecFn)                       *)
(***************************************************************************)

Renderers == {"fmt_find", "fmt_roots", "fmt_admin", "fmt_reference"}

NoId(item) == "id" \notin DOMAIN item

\* The id shown for item k of the payload's list is the placeholder.
FindShowsPlaceholder ==
    LET rs == Get(fnIn, "results", <<>>) IN
    \A k \in DOMAIN rs :
        NoId(Get(rs[k], "memory", <<>>)) => Out[3 * k][3] = "?"

RootsShowsPlaceholder ==
    LET rs == Get(fnIn, "roots", Get(fnIn, "results", <<>>)) IN
    \A k \in DOMAIN rs : NoId(rs[k]) => Out[2 + k][2] = "?"

AdminShowsPlaceholder ==
    Out[1][1] = "Would retract " =>
        \A k \in DOMAIN fnIn.would_retract :
            k <= AdminItems /\ IsItemDict(fnIn.would_retract[k])
            /\ NoId(fnIn.would_retract[k])
                => Out[1 + k][2] = "?"

ReferenceShowsPlaceholder == \A k \in DOMAIN Out : Out[k].id # ""

\* C14: every renderer returns a display string and never raises for a
\* payload that lacks any subset of its expected keys, at the top level or
\* inside a listed item, and a missing id is rendered as the placeholder "?".
C14_NeverRaisesIdPlaceholder ==
    fn \in Renderers /\ fnOut # <<>> =>
        /\ Out # KeyError
        /\ fn = "fmt_find" => FindShowsPlaceholder
        /\ fn = "fmt_roots" => RootsShowsPlaceholder
        /\ fn = "fmt_admin" => AdminShowsPlaceholder
        /\ fn = "fmt_reference" => ReferenceShowsPlaceholder

(***************************************************************************)
(* Claims about the observe tool (specification SpecFn)                    *)
(***************************************************************************)

Lines(txt) == {txt[k] : k \in DOMAIN txt}

IsDraft == Get(fnIn.data, "status", "active") = "draft"

MissingOf(data) == Get(Get(data, "warnings", <<>>), "missing_fields", <<>>)

\* The text names every missing field with its reason, the reasoning, and
\* the override call with the id the backend returned.
ShowsDraft(txt) ==
    /\ \A k \in DOMAIN MissingOf(fnIn.data) :
          LET f == MissingOf(fnIn.data)[k] IN
          <<"- ", Get(f, "field", "?"), ": ", Get(f, "reason", "")>> \in Lines(txt)
    /\ "reasoning" \in DOMAIN Get(fnIn.data, "warnings", <<>>)
          => <<fnIn.data.warnings.reasoning>> \in Lines(txt)
    /\ <<"To commit: call override(memory_id=\"", Get(fnIn.data, "id", "?"), "\")">>
          \in Lines(txt)

\* The text reports the memory as stored and shows nothing of a draft.
ShowsStored(txt) ==
    /\ \E k \in DOMAIN txt :
          \E j \in DOMAIN txt[k] :
              /\ txt[k][j] = "Stored ["
              /\ txt[k][j + 1] = Get(fnIn.data, "id", "?")
    /\ \A k \in DOMAIN txt :
          /\ Len(txt[k]) = 4 => txt[k][1] # "- "
          /\ Len(txt[k]) = 3 => txt[k][1] # "To commit: call override(memory_id=\""
          /\ Len(txt[k]) = 1 => txt[k][1] # "why"

\* C15: when the observe backend call succeeds with status "draft", the
\* invocation is a successful result, not a failure, and its text contains
\* every entry of warnings.missing_fields, the warnings.reasoning text and
\* the next action naming override with the memory id the backend
\* returned; when the status is not "draft" none of these appear and the
\* text reports the memory as stored.
C15_DraftIsSuccessWithNextAction ==
    Called("observe") =>
        IF IsDraft
        THEN Out.raised = NoException /\ ShowsDraft(Out.value)
        ELSE Out.raised = NoException => ShowsStored(Out.value)

\* What holds of the same calls whenever the notification step lets the
\* result through.
DraftRenderingWhenReturned ==
    Called("observe") /\ Out.raised = NoException =>
        IF IsDraft THEN ShowsDraft(Out.value) ELSE ShowsStored(Out.value)

DraftRenderingReached ==
    /\ Called("observe") /\ IsDraft /\ Out.raised = NoException
    /\ Len(MissingOf(fnIn.data)) = 2
    /\ Get(fnIn.poll.json, "notifications", <<>>) # <<>>

(***************************************************************************)
(* Claims about the notification header (specification SpecFn)             *)
(***************************************************************************)

PollReturned == ~Failed(fnIn.poll)
Notifs       == Get(fnIn.poll.json, "notifications", <<>>)

\* The text is the header line, one line per notification in the order
\* received, then the primary result unchanged.
HeaderThenResult(txt) ==
    /\ Len(txt) = 1 + Len(Notifs) + Len(fnIn.result)
    /\ txt[1] = <<"=== NOTIFICATIONS ===">>
    /\ \A k \in DOMAIN Notifs :
          "content" \in DOMAIN Notifs[k] => txt[1 + k] = <<"- ", Notifs[k].content>>
    /\ SubSeq(txt, 2 + Len(Notifs), Len(txt)) = fnIn.result

\* C16: if the poll returns a non-empty notification list, the tool result
\* is the header block ("=== NOTIFICATIONS ===" followed by exactly one
\* line per notification, in the order received) concatenated before the
\* unchanged primary result text; if the list is empty or missing, the
\* tool result equals the primary result text exactly.
C16_HeaderBeforeResult ==
    Called("with_notifications") /\ PollReturned =>
        /\ Out.raised = NoException
        /\ IF Notifs # <<>> THEN HeaderThenResult(Out.value)
           ELSE Out.value = fnIn.result

\* What holds of the same calls whenever every item has its content.
HeaderWhenReturned ==
    Called("with_notifications") /\ PollReturned /\ Out.raised = NoException =>
        IF Notifs # <<>> THEN HeaderThenResult(Out.value)
        ELSE Out.value = fnIn.result

HeaderReached ==
    /\ Called("with_notifications")
    /\ PollReturned
    /\ Notifs = <<[content |-> "n2"], [content |-> "n1"]>>
    /\ Out.value = << <<"=== NOTIFICATIONS ===">>, <<"- ", "n2">>, <<"- ", "n1">>,
                      <<"t1">>, <<"t2">> >>

(***************************************************************************)
(* Claims about dry runs (specification SpecDry)                           *)
(***************************************************************************)

IsCall(e)   == e.kind = "call"
DryRunOn(e) == Arg(e.supplied, ParamOf(e.tool, "dry_run")) = "True"

\* Entries k and k + 1 are the same dry-run call made twice in a row.
SameDryRunTwice(k) ==
    /\ k + 1 \in DOMAIN dryLog
    /\ IsCall(dryLog[k]) /\ IsCall(dryLog[k + 1])
    /\ dryLog[k].tool = dryLog[k + 1].tool
    /\ dryLog[k].supplied = dryLog[k + 1].supplied
    /\ DryRunOn(dryLog[k])

Less(a, b) ==
    \/ Len(a) < Len(b)
    \/ /\ Len(a) = Len(b)
       /\ \E k \in DOMAIN a : a[k] < b[k] /\ \A j \in 1..(k - 1) : a[j] = b[j]

TenToTwelve == <<1, 0, 0, 0, 0>>

Times1000(a) == IF a = <<0>> THEN a ELSE Append(a, 0)

\* C18: the timestamp normalisation treats every numeric value below 10^12
\* as seconds and scales it by 1000, and every value of 10^12 or more as
\* milliseconds unchanged, so that 1700000000 and 1700000000000 normalise
\* to the same instant and render to the identical UTC calendar date.
C18_SecondsBelowTenToTwelve ==
    (Called("resolves_by") \/ Called("ts")) /\ fnIn # <<>> =>
        LET v == fnIn[1] IN
        /\ Less(v, TenToTwelve) => Out.ms = Times1000(v)
        /\ ~Less(v, TenToTwelve) => Out.ms = v
        /\ v \in {<<1, 700, 0, 0>>, <<1, 700, 0, 0, 0>>} =>
              /\ Out.ms = <<1, 700, 0, 0, 0>>
              /\ Out.text = IF fn = "resolves_by" THEN "2023-11-14" ELSE "11-14 22:13"

C18_Witness ==
    /\ Called("resolves_by")
    /\ fnIn = << <<1, 700, 0, 0>> >>
    /\ Out = [ms |-> <<1, 700, 0, 0, 0>>, text |-> "2023-11-14"]

\* n is an integer nearest to num / Unit.
Nearest(n, num) ==
    /\ n * Unit - num <= Unit \div 2
    /\ num - n * Unit <= Unit \div 2

\* C19: the percentage conversion multiplies every value of at most 1 by
\* 100 and rounds it to the nearest integer, and only rounds every value
\* above 1 to the nearest integer; a ratio of 0.5 and a value of 50 both
\* render as 50%.
C19_RatioOrPercentage ==
    Called("pct") =>
        /\ fnIn <= Unit => Nearest(Out, fnIn * 100)
        /\ fnIn > Unit => Nearest(Out, fnIn)
        /\ fnIn \in {Unit \div 2, 50 * Unit} => Out = 50

C19_Witness ==
    /\ Called("pct")
    /\ fnIn = 50 * Unit
    /\ Out = 50

C19_WitnessRatio ==
    /\ Called("pct")
    /\ fnIn = Unit \div 2
    /\ Out = 50

(***************************************************************************)
(* Claims about fmt_find (specification SpecFn)                            *)
(***************************************************************************)

\* C20: rendering a find payload whose results list is empty or missing
\* and whose query is q yields exactly the text No results for "q" and
\* nothing else; it is a normal result, not an error.
C20_NoResultsSentence ==
    Called("fmt_find") /\ Get(fnIn, "results", <<>>) = <<>> =>
        /\ Out # KeyError
        /\ Len(Out) = 1
        /\ Out[1] = <<"No results for \"", Get(fnIn, "query", ""), "\"">>

C20_Witness ==
    /\ Called("fmt_find")
    /\ fnIn = [results |-> <<>>, query |-> "q"]
    /\ Out = << <<"No results for \"", "q", "\"">> >>

C20_WitnessMissing ==
    /\ Called("fmt_find")
    /\ fnIn = [query |-> "q"]
    /\ Out = << <<"No results for \"", "q", "\"">> >>

(***************************************************************************)
(* Claims about the descendant walk of fmt_reference (specification        *)
(* SpecRef)                                                                *)
(***************************************************************************)

\* The positions of the descendant lines, and of the lines walked from.
Down   == {k \in 2..Len(refOut) : refOut[k].mark = ">"}
Walked == Down \cup {1}

Depth(k) == refOut[k].indent

\* The line a descendant line hangs under: the nearest line before it that
\* is one level less indented.
ParentLine(k) ==
    LET up == {j \in 1..(k - 1) : Depth(j) = Depth(k) - 1}
    IN  CHOOSE j \in up : \A i \in up : i <= j

\* The last line of the block of lines under line j.
SubEnd(j) ==
    LET ends == {e \in j..Len(refOut) :
                    \A i \in (j + 1)..e : i \in Down /\ Depth(i) > Depth(j)}
    IN  CHOOSE e \in ends : \A i \in ends : i <= e

\* The position in the edge list of the first edge from s to t.
FirstEdge(s, t) ==
    LET ks == {k \in DOMAIN RefEdges : RefEdges[k] = Edge(s, t)}
    IN  CHOOSE k \in ks : \A i \in ks : k <= i

\* C21: the descendant lines are the depth-first pre-order of the graph
\* below the root, children taken in edge-list order.  Each descendant
\* line is the first line of its id, is at most one level deeper than the
\* line before it, and hangs under a line whose node has an edge to it, so
\* its indent is the length of the path it was first reached on; every
\* child of a walked node is rendered no later than the end of the block
\* under that node, so a node's line comes directly before the lines of
\* its unvisited descendants; and the lines hanging under one node follow
\* the order of that node's edges in the edge list.
C21_DepthFirstPreOrder ==
    RefRendered =>
        /\ \A k \in Down :
              /\ k - 1 \in Walked
              /\ Depth(k) >= 1
              /\ Depth(k) <= Depth(k - 1) + 1
              /\ \A j \in 1..(k - 1) : refOut[j].id # refOut[k].id
              /\ HasEdge(refOut[ParentLine(k)].id, refOut[k].id)
        /\ \A j \in Walked : \A t \in Ids :
              HasEdge(refOut[j].id, t) =>
                  \E i \in 1..SubEnd(j) : i \in Walked /\ refOut[i].id = t
        /\ \A k1, k2 \in Down :
              (k1 < k2 /\ ParentLine(k1) = ParentLine(k2)) =>
                  FirstEdge(refOut[ParentLine(k1)].id, refOut[k1].id)
                      < FirstEdge(refOut[ParentLine(k1)].id, refOut[k2].id)

\* C21 witness: a node that is a child of the root by a later edge was
\* first reached through another child and is rendered two levels deep,
\* directly under that child.
C21_Witness ==
    /\ RefRendered
    /\ Len(refOut) = 3
    /\ Depth(2) = 1 /\ Depth(3) = 2
    /\ refOut[2].mark = ">" /\ refOut[3].mark = ">"
    /\ HasEdge(RefRoot, refOut[3].id)
    /\ FirstEdge(RefRoot, refOut[2].id) < FirstEdge(RefRoot, refOut[3].id)

\* A second case of C21: two children of the root, rendered in the order
\* of the edge list and not of their ids.
C21_WitnessOrder ==
    /\ RefRendered
    /\ RefRoot = "m1"
    /\ RefEdges = <<Edge("m1", "m3"), Edge("m1", "m2")>>
    /\ Len(refOut) = 3
    /\ refOut[2].id = "m3" /\ refOut[3].id = "m2"
    /\ Depth(2) = 1 /\ Depth(3) = 1

(***************************************************************************)
(* Claims about nodes missing from the node list (specification SpecRef)   *)
(***************************************************************************)

NodeIds == {RefNodes[k].id : k \in DOMAIN RefNodes}

Referenced(id) == \E x \in Ids : HasEdge(x, id) \/ HasEdge(id, x)

\* The node list with the nodes it lacks added at its end, and the render
\* of the payload with that node list.
Completed ==
    RefNodes \o SelectSeq(<<Node("m1"), Node("m2"), Node("m3")>>,
                          LAMBDA n : n.id \notin NodeIds)

FullRender == fmt_reference([refData EXCEPT !.nodes = Completed])

\* C22: with a non-empty node list the render completes, and an id that
\* an edge references but the node list lacks has its line whenever the
\* walk reaches it: the line shows the id with empty content.  The lines
\* are those of the same payload with the lacking nodes added: same
\* number, order, indent, mark and id, and the line of every node that is
\* in the node list is the same in full.
C22_MissingNodeEmptyContent ==
    RefRendered =>
        LET full  == FullRender
            reach == ReachFrom({RefRoot})
            ids   == NodeIds
        IN  /\ Len(refOut) = Len(full)
            /\ \A k \in DOMAIN refOut :
                  /\ refOut[k].indent = full[k].indent
                  /\ refOut[k].mark = full[k].mark
                  /\ refOut[k].id = full[k].id
                  /\ IF refOut[k].id \in ids
                     THEN refOut[k] = full[k]
                     ELSE refOut[k].content = <<>>
            /\ \A id \in Ids \ ids :
                  (Referenced(id) /\ id \in reach \ {RefRoot}) =>
                      id \in LineIds(">")
            /\ \A id \in Ids \ (ids \cup reach) :
                  HasEdge(id, RefRoot) => id \in LineIds("<")

\* C22 witness: m3, whose content is not empty, is missing from the node
\* list and is reached through m1; its line has empty content and the
\* line of m1 has its content.
C22_Witness ==
    /\ RefRendered
    /\ "m3" \notin NodeIds
    /\ \E j, k \in 2..Len(refOut) :
          /\ refOut[k] = Line(refOut[k].indent, ">", [id |-> "m3", content |-> <<>>])
          /\ refOut[j].id = "m1" /\ refOut[j].content = <<"a">>
          /\ HasEdge("m1", "m3") /\ j < k
    /\ FullRender # refOut

\* A second case of C22: the missing node is a parent of the root.
C22_WitnessParent ==
    /\ RefRendered
    /\ \E k \in 2..Len(refOut) :
          /\ refOut[k].mark = "<"
          /\ refOut[k].id \notin NodeIds
          /\ refOut[k].content = <<>>
          /\ ContentOf[refOut[k].id] # <<>>

(***************************************************************************)
(* Claims about the dry-run preview of fmt_admin (specification SpecFn)    *)
(***************************************************************************)

\* The keys whose branches of fmt_admin come before the preview.
EarlierKeys ==
    {"retracted", "pending_count", "event_types", "purged", "previous_state",
     "new_state", "cleaned"}

\* fmt_admin has run on a payload with would_retract and no earlier key.
PreviewPayload ==
    /\ Called("fmt_admin")
    /\ "would_retract" \in DOMAIN fnIn
    /\ DOMAIN fnIn \cap EarlierKeys = {}

\* The payload is success=true and would_retract and nothing else.
SuccessAndListOnly ==
    DOMAIN fnIn = {"success", "would_retract"} /\ fnIn.success = "True"

\* The output is the preview: the count of all items, then one line for
\* each of the first ten, with the item's id (or "?", or the bare item).
ShowsPreview ==
    LET ws == fnIn.would_retract
        n  == IF Len(ws) < 10 THEN Len(ws) ELSE 10
    IN  /\ Len(Out) = 1 + n
        /\ Out[1] = <<"Would retract ", ToString(Len(ws)), " memories:">>
        /\ \A k \in 1..n :
              /\ Out[1 + k][1] = "  ["
              /\ Out[1 + k][2] = (IF "bare" \in DOMAIN ws[k] THEN ws[k].bare
                                  ELSE IF "id" \in DOMAIN ws[k] THEN ws[k].id
                                  ELSE "?")
              /\ Len(Out[1 + k][4]) <= 80

\* C23: for every payload with a would_retract list and none of the keys
\* retracted, pending_count, event_types, purged, previous_state, new_state
\* or cleaned, fmt_admin renders the preview "Would retract N memories:"
\* followed by at most the first ten items, also when the payload is only
\* success=true and would_retract.
C23_WouldRetractRendersPreview ==
    PreviewPayload => ShowsPreview

\* What the code does: the preview for such a payload, except that a
\* payload of success=true and would_retract alone renders as "Done".
PreviewUnlessSuccessAndListOnly ==
    PreviewPayload =>
        IF SuccessAndListOnly THEN Out = << <<"Done">> >> ELSE ShowsPreview

\* The preview of a list longer than ten items, and the "Done" of a
\* payload of success=true and a non-empty would_retract, are both reached.
PreviewReached ==
    /\ PreviewPayload /\ ShowsPreview
    /\ Len(fnIn.would_retract) > 10 /\ Len(Out) = 11

DoneForPreviewReached ==
    /\ PreviewPayload /\ SuccessAndListOnly
    /\ fnIn.would_retract # <<>>
    /\ Out = << <<"Done">> >>

====
